---- MODULE Spec2Model ----
(***************************************************************************)
(* Routing-and-streaming pipeline of the multi-agent server:               *)
(*   classifyIntent, routeAndAnswer, routeAndAnswerStream (routerAgent.js) *)
(*   codingAgent / financeAgent / genericAgent and their *Stream variants  *)
(*   invokeAgentText / invokeAgentStream (agentRuntime.js)                 *)
(*   BedrockLLM.ask / askStream (bedrockClient.js)                         *)
(*                                                                         *)
(* Strings are tuples of one-character strings, so that trimming, regular  *)
(* expression tests, concatenation and JSON parsing are computed as the    *)
(* code computes them. One action runs the program from one await of an    *)
(* upstream provider to the next (or to the end of the request): promise   *)
(* continuations between generators run back to back, and the abort event  *)
(* can only be delivered while the request waits for upstream I/O.         *)
(***************************************************************************)
EXTENDS Integers, Sequences, FiniteSets, TLC

(* ------------------------------------------------------------------------ *)
(* Bounds                                                                   *)
(* ------------------------------------------------------------------------ *)

\* Upstream stream events (chunks and non-chunk events) delivered per request.
MaxFrags == 2

\* upstream stream events delivered to each of two requests in flight together
PairFrags == 1

\* chunks delivered to a request whose upstream sends whole provider objects
SchemaFrags == 1

\* sends the user starts in one ChatBox, and frames the ChatBox reads in all
MaxSends == 2
MaxReads == 2

\* keep-alive comments the timer of one response writes
MaxTicks == 1

(* ------------------------------------------------------------------------ *)
(* Characters and strings                                                   *)
(* ------------------------------------------------------------------------ *)

Q == "\""

WS == {" ", "\n", "\t"}

Digits == {"0", "1", "2", "3", "4", "5", "6", "7", "8", "9"}

RECURSIVE TrimLeft(_)
TrimLeft(s) ==
  IF s # <<>> /\ Head(s) \in WS THEN TrimLeft(Tail(s)) ELSE s

RECURSIVE TrimRight(_)
TrimRight(s) ==
  IF s # <<>> /\ s[Len(s)] \in WS THEN TrimRight(SubSeq(s, 1, Len(s) - 1)) ELSE s

\* String.prototype.trim
Trim(s) == TrimRight(TrimLeft(s))

\* String.prototype.toLowerCase on the letters the model uses
LowerChar(c) ==
  CASE c = "C" -> "c"
    [] c = "F" -> "f"
    [] c = "G" -> "g"
    [] c = "O" -> "o"
    [] c = "D" -> "d"
    [] c = "E" -> "e"
    [] OTHER -> c

ToLowerCase(s) == [i \in 1..Len(s) |-> LowerChar(s[i])]

\* Index of the first occurrence of character c in s at or after i; 0 if none.
RECURSIVE IndexFrom(_, _, _)
IndexFrom(s, c, i) ==
  IF i > Len(s) THEN 0
  ELSE IF s[i] = c THEN i
  ELSE IndexFrom(s, c, i + 1)

(* ------------------------------------------------------------------------ *)
(* JSON values, JSON.parse and JSON.stringify                               *)
(*   grammar covered: objects, arrays, strings without escapes, decimal     *)
(*   numbers, null / true / false, with JSON whitespace between tokens      *)
(* ------------------------------------------------------------------------ *)

JStr(cs)   == [t |-> "str",   s |-> cs,   kids |-> <<>>]
JNum(cs)   == [t |-> "num",   s |-> cs,   kids |-> <<>>]
JLit(name) == [t |-> name,    s |-> <<>>, kids |-> <<>>]
JObj(ms)   == [t |-> "obj",   s |-> <<>>, kids |-> ms]
JArr(es)   == [t |-> "arr",   s |-> <<>>, kids |-> es]
Undefined  == JLit("undefined")
JNull      == JLit("null")

PFail == [ok |-> FALSE, v |-> Undefined, next |-> 0]
POk(v, n) == [ok |-> TRUE, v |-> v, next |-> n]

RECURSIVE SkipWs(_, _)
SkipWs(s, i) ==
  IF i <= Len(s) /\ s[i] \in WS THEN SkipWs(s, i + 1) ELSE i

\* s has the characters of word at position i
HasWordAt(s, i, word) ==
  /\ i + Len(word) - 1 <= Len(s)
  /\ SubSeq(s, i, i + Len(word) - 1) = word

RECURSIVE DigitsEnd(_, _)
\* first index at or after i that is not a digit
DigitsEnd(s, i) ==
  IF i <= Len(s) /\ s[i] \in Digits THEN DigitsEnd(s, i + 1) ELSE i

StringEnd(s, i, j) ==
  IF j = 0 THEN PFail ELSE POk(JStr(SubSeq(s, i + 1, j - 1)), j + 1)

\* the string literal that opens at i
ParseString(s, i) == StringEnd(s, i, IndexFrom(s, Q, i + 1))

NumberEnd(s, i, i0, e1, e2) ==
  IF e1 = i0 \/ (e2 > e1 /\ e2 = e1 + 1)
  THEN PFail
  ELSE POk(JNum(SubSeq(s, i, e2 - 1)), e2)

FractionEnd(s, e1) ==
  IF e1 <= Len(s) /\ s[e1] = "." THEN DigitsEnd(s, e1 + 1) ELSE e1

NumberFrom(s, i, i0, e1) == NumberEnd(s, i, i0, e1, FractionEnd(s, e1))

\* the number literal [-]d+[.d+] that opens at i
ParseNumber(s, i) ==
  NumberFrom(s, i, IF s[i] = "-" THEN i + 1 ELSE i,
             DigitsEnd(s, IF s[i] = "-" THEN i + 1 ELSE i))

RECURSIVE ParseValue(_, _), ParseMembers(_, _, _), ParseElements(_, _, _)

\* after a member: '}' closes the object, ',' continues it
MemberNext(s, d, acc) ==
  IF d > Len(s) THEN PFail
  ELSE IF s[d] = "}" THEN POk(JObj(acc), d + 1)
  ELSE IF s[d] = "," THEN ParseMembers(s, d + 1, acc)
  ELSE PFail

MemberValue(s, k, v, acc) ==
  IF ~v.ok THEN PFail
  ELSE MemberNext(s, SkipWs(s, v.next), Append(acc, [k |-> k.v.s, v |-> v.v]))

MemberColon(s, k, c, acc) ==
  IF c > Len(s) \/ s[c] # ":" THEN PFail
  ELSE MemberValue(s, k, ParseValue(s, SkipWs(s, c + 1)), acc)

MemberKey(s, k, acc) ==
  IF ~k.ok THEN PFail ELSE MemberColon(s, k, SkipWs(s, k.next), acc)

MemberAt(s, a, acc) ==
  IF a > Len(s) \/ s[a] # Q THEN PFail ELSE MemberKey(s, ParseString(s, a), acc)

\* members of an object after '{' or ',': "key" : value ( , ... )* }
ParseMembers(s, i, acc) == MemberAt(s, SkipWs(s, i), acc)

\* after an element: ']' closes the array, ',' continues it
ElementNext(s, d, acc) ==
  IF d > Len(s) THEN PFail
  ELSE IF s[d] = "]" THEN POk(JArr(acc), d + 1)
  ELSE IF s[d] = "," THEN ParseElements(s, d + 1, acc)
  ELSE PFail

ElementValue(s, v, acc) ==
  IF ~v.ok THEN PFail ELSE ElementNext(s, SkipWs(s, v.next), Append(acc, v.v))

\* elements of an array after '[' or ',': value ( , ... )* ]
ParseElements(s, i, acc) == ElementValue(s, ParseValue(s, SkipWs(s, i)), acc)

ObjectAt(s, i, a) ==
  IF a <= Len(s) /\ s[a] = "}" THEN POk(JObj(<<>>), a + 1) ELSE ParseMembers(s, i + 1, <<>>)

ArrayAt(s, i, a) ==
  IF a <= Len(s) /\ s[a] = "]" THEN POk(JArr(<<>>), a + 1) ELSE ParseElements(s, i + 1, <<>>)

ParseValue(s, i) ==
  IF i > Len(s) THEN PFail
  ELSE IF s[i] = "{" THEN ObjectAt(s, i, SkipWs(s, i + 1))
  ELSE IF s[i] = "[" THEN ArrayAt(s, i, SkipWs(s, i + 1))
  ELSE IF s[i] = Q THEN ParseString(s, i)
  ELSE IF s[i] \in Digits \cup {"-"} THEN ParseNumber(s, i)
  ELSE IF HasWordAt(s, i, <<"n", "u", "l", "l">>) THEN POk(JNull, i + 4)
  ELSE IF HasWordAt(s, i, <<"t", "r", "u", "e">>) THEN POk(JLit("true"), i + 4)
  ELSE IF HasWordAt(s, i, <<"f", "a", "l", "s", "e">>) THEN POk(JLit("false"), i + 5)
  ELSE PFail

WholeText(s, r) ==
  IF r.ok /\ SkipWs(s, r.next) > Len(s) THEN [ok |-> TRUE, v |-> r.v]
  ELSE [ok |-> FALSE, v |-> Undefined]

\* JSON.parse(s): [ok |-> FALSE] stands for the SyntaxError it throws
JsonParse(s) == WholeText(s, ParseValue(s, SkipWs(s, 1)))

RECURSIVE JoinWith(_, _)
\* the strings of seq joined with commas
JoinWith(seq, sep) ==
  IF seq = <<>> THEN <<>>
  ELSE IF Len(seq) = 1 THEN seq[1]
  ELSE seq[1] \o sep \o JoinWith(Tail(seq), sep)

RECURSIVE JsonStringify(_)
JsonStringify(v) ==
  CASE v.t = "str" -> <<Q>> \o v.s \o <<Q>>
    [] v.t = "num" -> v.s
    [] v.t = "null" -> <<"n", "u", "l", "l">>
    [] v.t = "true" -> <<"t", "r", "u", "e">>
    [] v.t = "false" -> <<"f", "a", "l", "s", "e">>
    [] v.t = "obj" ->
         <<"{">> \o
         JoinWith([i \in 1..Len(v.kids) |->
                     <<Q>> \o v.kids[i].k \o <<Q, ":">> \o JsonStringify(v.kids[i].v)],
                  <<",">>) \o
         <<"}">>
    [] v.t = "arr" ->
         <<"[">> \o
         JoinWith([i \in 1..Len(v.kids) |-> JsonStringify(v.kids[i])], <<",">>) \o
         <<"]">>
    [] OTHER -> <<>>

\* property read v[key] (v?.key): the last member named key of an object,
\* undefined for a missing member or a value that is not an object
Get(v, key) ==
  IF v.t # "obj" THEN Undefined
  ELSE IF \A i \in 1..Len(v.kids) : v.kids[i].k # key THEN Undefined
  ELSE v.kids[CHOOSE i \in 1..Len(v.kids) :
                /\ v.kids[i].k = key
                /\ \A j \in i + 1..Len(v.kids) : v.kids[j].k # key].v

\* JavaScript truthiness of a JSON value
Truthy(v) ==
  CASE v.t \in {"undefined", "null", "false"} -> FALSE
    [] v.t = "str" -> v.s # <<>>
    [] v.t = "num" -> \E i \in 1..Len(v.s) : v.s[i] \in Digits \ {"0"}
    [] OTHER -> TRUE

\* String(v) of a JSON value; "[object Object]" is kept as one character
RECURSIVE JsString(_)
JsString(v) ==
  CASE v.t = "str" -> v.s
    [] v.t = "num" -> v.s
    [] v.t = "obj" -> <<"[object Object]">>
    [] v.t = "arr" -> JoinWith([i \in 1..Len(v.kids) |->
                                  IF v.kids[i].t \in {"null", "undefined"} THEN <<>>
                                  ELSE JsString(v.kids[i])], <<",">>)
    [] v.t = "null" -> <<"n", "u", "l", "l">>
    [] v.t = "true" -> <<"t", "r", "u", "e">>
    [] v.t = "false" -> <<"f", "a", "l", "s", "e">>
    [] OTHER -> <<"u", "n", "d", "e", "f", "i", "n", "e", "d">>

\* v[0] (v[0]?. ...): first element of an array, first character of a string
Index0(v) ==
  CASE v.t = "arr" /\ v.kids # <<>> -> v.kids[1]
    [] v.t = "str" /\ v.s # <<>> -> JStr(<<v.s[1]>>)
    [] OTHER -> Undefined

(* ------------------------------------------------------------------------ *)
(* Numbers: a JavaScript number is [finite, n] with n in hundredths         *)
(* ------------------------------------------------------------------------ *)

NaN == [finite |-> FALSE, n |-> 0]
Num(n) == [finite |-> TRUE, n |-> n]

DigitVal(c) == CHOOSE d \in 0..9 : <<"0", "1", "2", "3", "4", "5", "6", "7", "8", "9">>[d + 1] = c

RECURSIVE DigitsVal(_, _)
DigitsVal(cs, acc) ==
  IF cs = <<>> THEN acc ELSE DigitsVal(Tail(cs), acc * 10 + DigitVal(Head(cs)))

Magnitude(ip, fp) ==
  DigitsVal(ip, 0) * 100 + DigitsVal(SubSeq(fp \o <<"0", "0">>, 1, 2), 0)

Unsigned(body, dot) ==
  IF dot = 0 THEN Magnitude(body, <<>>)
  ELSE Magnitude(SubSeq(body, 1, dot - 1), SubSeq(body, dot + 1, Len(body)))

\* the numeric value of a decimal literal [-]d+[.d+], in hundredths
DecimalVal(cs) ==
  IF cs # <<>> /\ cs[1] = "-"
  THEN 0 - Unsigned(Tail(cs), IndexFrom(Tail(cs), ".", 1))
  ELSE Unsigned(cs, IndexFrom(cs, ".", 1))

WholeNumber(cs, r) == r.ok /\ r.next = Len(cs) + 1

IsDecimal(cs) ==
  /\ cs # <<>>
  /\ cs[1] \in Digits \cup {"-"}
  /\ WholeNumber(cs, ParseNumber(cs, 1))

StringToNumber(cs) ==
  IF cs = <<>> THEN Num(0)
  ELSE IF IsDecimal(cs) THEN Num(DecimalVal(cs))
  ELSE NaN

\* Number(x)
ToNumber(v) ==
  CASE v.t = "num" -> Num(DecimalVal(v.s))
    [] v.t = "str" -> StringToNumber(Trim(v.s))
    [] v.t = "null" -> Num(0)
    [] v.t = "false" -> Num(0)
    [] v.t = "true" -> Num(100)
    [] v.t = "arr" -> IF v.kids = <<>> THEN Num(0) ELSE NaN
    [] OTHER -> NaN

Min2(a, b) == IF a < b THEN a ELSE b
Max2(a, b) == IF a > b THEN a ELSE b

(* ------------------------------------------------------------------------ *)
(* routerAgent.js helpers                                                   *)
(* ------------------------------------------------------------------------ *)

Clamp(n) == IF n.finite THEN Max2(0, Min2(100, n.n)) ELSE 50

\* clamp01(x), in hundredths
clamp01(x) == Clamp(ToNumber(x))

FirstBlock(text, a, b) ==
  IF b = 0 THEN [ok |-> FALSE, s |-> <<>>] ELSE [ok |-> TRUE, s |-> SubSeq(text, a, b)]

BlockFrom(text, a) == FirstBlock(text, a, IF a = 0 THEN 0 ELSE IndexFrom(text, "}", a + 1))

\* extractFirstJson(text): the match of /\{[\s\S]*?\}/, ok FALSE for null
extractFirstJson(text) == BlockFrom(text, IndexFrom(text, "{", 1))

ParsedOrNull(r) == IF r.ok THEN r.v ELSE JNull

Candidate(raw, m) == IF m.ok THEN m.s ELSE raw

\* safeParseJson(raw): the parsed value, null when JSON.parse throws
safeParseJson(raw) == ParsedOrNull(JsonParse(Trim(Candidate(raw, extractFirstJson(raw)))))

PieceText(piece, delta, txt) ==
  IF delta.t = "str" THEN delta.s
  ELSE IF txt.t = "str" THEN txt.s
  ELSE JsonStringify(piece)

\* normalizeToString(piece)
normalizeToString(piece) ==
  CASE piece.t \in {"null", "undefined"} -> <<>>
    [] piece.t = "str" -> piece.s
    [] piece.t \in {"obj", "arr"} ->
         PieceText(piece, Get(piece, <<"d", "e", "l", "t", "a">>),
                   Get(piece, <<"t", "e", "x", "t">>))
    [] OTHER -> JsString(piece)

\* a variant that takes every text that is not blank for JSON
looksJsonAnyText(trimmed) == trimmed # <<>>

\* /^[\[{]/.test(trimmed)
looksJson(trimmed) == trimmed # <<>> /\ trimmed[1] \in {"[", "{"}

KeyType    == <<"t", "y", "p", "e">>
KeyDelta   == <<"d", "e", "l", "t", "a">>
KeyText    == <<"t", "e", "x", "t">>
KeyChoices == <<"c", "h", "o", "i", "c", "e", "s">>
KeyContent == <<"c", "o", "n", "t", "e", "n", "t">>
ContentBlockDelta == <<"c", "o", "n", "t", "e", "n", "t", "_", "b", "l", "o", "c", "k", "_",
                       "d", "e", "l", "t", "a">>

OrEmpty(x) == IF Truthy(x) THEN x ELSE JStr(<<>>)

NullishEmpty(x) == IF x.t \in {"null", "undefined"} THEN JStr(<<>>) ELSE x

\* a variant that looks at a string delta before it looks at choices
DeltaByDeltaFirst(parsed, type, choices, delta, txt) ==
  IF type = JStr(ContentBlockDelta) THEN OrEmpty(Get(delta, KeyText))
  ELSE IF delta.t = "str" THEN delta
  ELSE IF Truthy(choices) THEN NullishEmpty(Get(Get(Index0(choices), KeyDelta), KeyContent))
  ELSE IF txt.t = "str" THEN txt
  ELSE IF parsed.t = "str" THEN parsed
  ELSE JStr(JsonStringify(parsed))

DeltaBy(parsed, type, choices, delta, txt) ==
  IF type = JStr(ContentBlockDelta) THEN OrEmpty(Get(delta, KeyText))
  ELSE IF Truthy(choices) THEN NullishEmpty(Get(Get(Index0(choices), KeyDelta), KeyContent))
  ELSE IF delta.t = "str" THEN delta
  ELSE IF txt.t = "str" THEN txt
  ELSE IF parsed.t = "str" THEN parsed
  ELSE JStr(JsonStringify(parsed))

\* the provider-schema dispatch: deltaText of a parsed buffer, as a JSON value
deltaTextOf(parsed) ==
  DeltaBy(parsed, Get(parsed, KeyType), Get(parsed, KeyChoices), Get(parsed, KeyDelta),
          Get(parsed, KeyText))

(* ------------------------------------------------------------------------ *)
(* Inputs                                                                   *)
(* ------------------------------------------------------------------------ *)

\* request texts, as word sequences
TextPlain == <<"hi">>
TextFx    == <<"convert", "usd", "fees">>
Texts     == {TextPlain, TextFx}

LabelCode    == <<"c", "o", "d", "e">>
LabelFinance == <<"f", "i", "n", "a", "n", "c", "e">>
LabelGeneral == <<"g", "e", "n", "e", "r", "a", "l">>
KeyLabel      == <<"l", "a", "b", "e", "l">>
KeyConfidence == <<"c", "o", "n", "f", "i", "d", "e", "n", "c", "e">>

\* texts an upstream classifier (agent or model) may answer with
\*   {"label":"code","confidence":0.9}
OutCode == <<"{", Q>> \o KeyLabel \o <<Q, ":", Q>> \o LabelCode \o <<Q, ",", Q>> \o
           KeyConfidence \o <<Q, ":", "0", ".", "9", "}">>
\*   ok {"label":"Finance","confidence":2}   (prose around it, capital letter, 2 > 1)
OutFinance == <<"o", "k", " ", "{", Q>> \o KeyLabel \o <<Q, ":", Q, "F">> \o
              Tail(LabelFinance) \o <<Q, ",", Q>> \o KeyConfidence \o <<Q, ":", "2", "}">>
\*   {"label":"general"}
OutGeneral == <<"{", Q>> \o KeyLabel \o <<Q, ":", Q>> \o LabelGeneral \o <<Q, "}">>
\*   {"label":"chat","confidence":0.7}
OutBadLabel == <<"{", Q>> \o KeyLabel \o <<Q, ":", Q, "c", "h", "a", "t", Q, ",", Q>> \o
               KeyConfidence \o <<Q, ":", "0", ".", "7", "}">>
\*   oops
OutProse == <<"o", "o", "p", "s">>
\*   {"label":"code","meta":{"a":1}}
OutNested == <<"{", Q>> \o KeyLabel \o <<Q, ":", Q>> \o LabelCode \o
             <<Q, ",", Q, "m", "e", "t", "a", Q, ":", "{", Q, "a", Q, ":", "1", "}", "}">>
\*   {"label":"code","confidence":null}
OutNullConfidence == <<"{", Q>> \o KeyLabel \o <<Q, ":", Q>> \o LabelCode \o <<Q, ",", Q>> \o
                     KeyConfidence \o <<Q, ":", "n", "u", "l", "l", "}">>
ClassifierOutputs ==
  {OutCode, OutFinance, OutGeneral, OutBadLabel, OutProse, OutNested, OutNullConfidence}

\* answers an upstream responder (agent or model) may give to a single-shot call
AnswerOk     == <<"o", "k">>
AnswerPadded == <<" ", "[object Object]", "o", "k", "\n">>
Answers      == {AnswerOk, AnswerPadded}

\* fragments an upstream stream may deliver
\*   {"del
FragDelHead == <<"{", Q, "d", "e", "l">>
\*   ta":"ab"}
FragDelTail == <<"t", "a", Q, ":", Q, "a", "b", Q, "}">>
\*   {"delta":"ab"}
FragDelta == FragDelHead \o FragDelTail
\*   {"partial":
FragPartial == <<"{", Q, "p", "a", "r", "t", "i", "a", "l", Q, ":">>
\*   hi
FragPlain == <<"h", "i">>
\*   the empty string
FragEmpty == <<>>
\*   { hi } followed by a line break
FragCode == <<"{", " ", "h", "i", " ", "}", "\n">>
\*   a zero-width space
FragZeroWidth == <<"U+200B">>
\*   {"text":"hi"}}  (what follows {"partial": when the object is cut there)
FragPartialTail == <<"{", Q>> \o KeyText \o <<Q, ":", Q, "h", "i", Q, "}", "}">>
Fragments ==
  {FragDelHead, FragDelTail, FragDelta, FragPartial, FragPlain, FragEmpty, FragCode,
   FragZeroWidth, FragPartialTail}

\* whole objects of the provider schemas: every choice of a type, a choices, a delta
\* and a text member, each of them possibly absent
Member(key, value) == <<Q>> \o key \o <<Q, ":">> \o value

TypeMembers == {<<>>, Member(KeyType, <<Q>> \o ContentBlockDelta \o <<Q>>)}

\*   [{"delta":{"content":"c"}}]
ChoicesMembers ==
  {<<>>,
   Member(KeyChoices, <<"[", "]">>),
   Member(KeyChoices, <<"n", "u", "l", "l">>),
   Member(KeyChoices, <<"[", "{">> \o Member(KeyDelta, <<"{">> \o
                        Member(KeyContent, <<Q, "c", Q>>) \o <<"}">>) \o <<"}", "]">>)}

DeltaMembers ==
  {<<>>,
   Member(KeyDelta, <<Q, "d", Q>>),
   Member(KeyDelta, <<"{">> \o Member(KeyText, <<Q, "t", Q>>) \o <<"}">>),
   Member(KeyDelta, <<"{">> \o Member(KeyText, <<Q, Q>>) \o <<"}">>)}

TextMembers == {<<>>, Member(KeyText, <<Q, "x", Q>>)}

ObjectOf(members) ==
  <<"{">> \o JoinWith(SelectSeq(members, LAMBDA m : m # <<>>), <<",">>) \o <<"}">>

SchemaObjects ==
  {ObjectOf(<<t, c, d, x>>) :
     t \in TypeMembers, c \in ChoicesMembers, d \in DeltaMembers, x \in TextMembers}

\* errors an upstream call may raise
AgentErrors == {"NetworkError", "AccessDeniedException"}
\* what a raised error can be once the signal is aborted
StreamErrors(ab) == IF ab THEN {"NetworkError", "AbortError"} ELSE {"NetworkError"}

(* ------------------------------------------------------------------------ *)
(* State                                                                    *)
(* ------------------------------------------------------------------------ *)

VARIABLES
  mode,       \* "stream": routeAndAnswerStream (GET /api/stream); "block": routeAndAnswer
  text,       \* the request text
  pc,         \* where the request is suspended
  aborted,    \* signal.aborted
  env,        \* the agent id / alias id / model id settings the request has read
  cls,        \* the value classifyIntent returned ([ok |-> FALSE] before it returns)
  intent,     \* the label routeAndAnswer* took from it ("none" before)
  calls,      \* provider calls made so far: invokeAgentText, ask, invokeAgentStream, askStream
  askStage,   \* inside BedrockLLM.ask: "none", "converse", "invoke"
  events,     \* the events routeAndAnswerStream has yielded
  jsonBuf,    \* jsonBuf of routeAndAnswerStream
  pulled,     \* the pieces the for-await loop of routeAndAnswerStream received
  tdPending,  \* the TextDecoder of invokeAgentStream holds an incomplete character
  delivered,  \* upstream stream events delivered to the request
  requests,   \* upstream stream events the request asked for (next() on the SDK stream)
  caught,     \* what routeAndAnswerStream's catch block caught ("none" if nothing)
  result,     \* what routeAndAnswer returned ([ok |-> FALSE] before)
  lastOut,    \* the text the last single-shot provider call returned
  deltaSrc,   \* for each delta event, the indexes in pulled of the pieces its text is from
  bufSrc,     \* the indexes in pulled of the pieces whose text is in jsonBuf
  frames,     \* the data frames GET /api/stream has written on the open response
  served,     \* how many of the events the loop of GET /api/stream has taken
  sentDone,   \* sentDone of GET /api/stream
  closed,     \* who ended the response: "none", "client" (close event), "server" (finally)
  lateYields, \* the fragments invokeAgentStream yielded with its signal aborted
  pulledBy,   \* for each piece in pulled, the call (its api) whose stream it came from
  keepAlive,  \* the keep-alive timer of the response: whether it is set, and the
              \* comments it has written
  lateWrites, \* what res.write was called with after the response had ended
  other,      \* a second request of the process, suspended at an await: its state as a
              \* record (NoOther when the process serves one request)
  auth,       \* what requireAuth saw of the request and did with it (NoAuth when
              \* the request is taken up at its handler)
  penv,       \* process.env as far as a run fixes it: the agent id and alias id
              \* variables that are set (NoPenv when each request draws its settings)
  chat        \* the ChatBox component of the client: sending, streamRef and the calls
              \* of send in flight (NoChat when the server is looked at alone)

vars == <<mode, text, pc, aborted, env, cls, intent, calls, askStage, events, jsonBuf,
          pulled, tdPending, delivered, requests, caught, result, lastOut, deltaSrc,
          bufSrc, frames, served, sentDone, closed, lateYields, pulledBy, keepAlive,
          lateWrites, other, auth, penv, chat>>

NoResult == [ok |-> FALSE, intent |-> "none", agentName |-> "none", answer |-> <<>>]
NoCls    == [ok |-> FALSE, label |-> "none", confidence |-> 0, source |-> "none"]
NoOther  == [mode |-> "none"]
NoChat   == [version |-> 0]
NoPenv   == [known |-> FALSE, ids |-> {}, aliases |-> {}]

\* a header or query value: undefined, a string, or the array a repeated query
\* parameter is parsed to
Absent  == [kind |-> "undefined", chars |-> <<>>]
Str(cs) == [kind |-> "string", chars |-> cs]
Arr     == [kind |-> "array", chars |-> <<>>]

NoAuth == [header |-> Absent, query |-> Absent, status |-> 0, admitted |-> TRUE]
NoEnv    == [agentVar |-> "none", agentId |-> FALSE, aliasId |-> FALSE]

Ev(type, it, name, delta, error) ==
  [type |-> type, intent |-> it, agentName |-> name, delta |-> delta, error |-> error]

IntentEv(it, name) == Ev("intent", it, name, <<>>, "")
DeltaEv(it, d)     == Ev("delta", it, "", d, "")
ErrorEv(it)        == Ev("error", it, "", <<>>, "Error during streaming")
DoneEv(it)         == Ev("done", it, "", <<>>, "")

\* a request as it arrives
InitRequest ==
  /\ mode \in {"stream", "block"}
  /\ text \in Texts
  /\ pc = "start"
  /\ aborted = FALSE
  /\ env = [classify |-> NoEnv, responder |-> NoEnv, modelId |-> "unread"]
  /\ cls = NoCls
  /\ intent = "none"
  /\ calls = <<>>
  /\ askStage = "none"
  /\ events = <<>>
  /\ jsonBuf = <<>>
  /\ pulled = <<>>
  /\ tdPending = FALSE
  /\ delivered = 0
  /\ requests = 0
  /\ caught = "none"
  /\ result = NoResult
  /\ lastOut = <<>>
  /\ deltaSrc = <<>>
  /\ bufSrc = {}
  /\ frames = <<>>
  /\ served = 0
  /\ sentDone = FALSE
  /\ closed = "none"
  /\ lateYields = <<>>
  /\ pulledBy = <<>>
  /\ keepAlive = [on |-> mode = "stream", ticks |-> 0]
  /\ lateWrites = <<>>

Init == InitRequest /\ other = NoOther /\ auth = NoAuth /\ penv = NoPenv /\ chat = NoChat

\* the texts the upstreams give while two requests are in flight
PairTexts == {OutFinance, OutProse, FragDelHead, FragDelTail}

\* the values of S an upstream may give in the current run
Offered(S) == IF other.mode = "none" THEN S ELSE S \cap PairTexts

\* whether an agent id, an alias id, a model id is set: the configuration of the
\* process, which two requests in flight share: no classifier agent, every
\* responder agent and model id set
Setting == IF other.mode = "none" THEN BOOLEAN ELSE {TRUE}

ClassifierSetting == IF other.mode = "none" THEN BOOLEAN ELSE {FALSE}

\* whether the variable a responder reads its agent id (alias id) from is set
IdSetting(var)    == IF penv.known THEN {var \in penv.ids} ELSE Setting
AliasSetting(var) == IF penv.known THEN {var \in penv.aliases} ELSE Setting

\* the upstream stream events one request may get
Budget == IF other.mode = "none" THEN MaxFrags ELSE PairFrags

(* ------------------------------------------------------------------------ *)
(* The state as a record, so that one action can run several functions      *)
(* ------------------------------------------------------------------------ *)

Cur ==
  [mode |-> mode, text |-> text, pc |-> pc, aborted |-> aborted, env |-> env, cls |-> cls,
   intent |-> intent, calls |-> calls, askStage |-> askStage, events |-> events,
   jsonBuf |-> jsonBuf, pulled |-> pulled, tdPending |-> tdPending,
   delivered |-> delivered, requests |-> requests, caught |-> caught, result |-> result,
   lastOut |-> lastOut, deltaSrc |-> deltaSrc, bufSrc |-> bufSrc, frames |-> frames,
   served |-> served, sentDone |-> sentDone, closed |-> closed,
   lateYields |-> lateYields, pulledBy |-> pulledBy, keepAlive |-> keepAlive,
   lateWrites |-> lateWrites]

(* ------------------------------------------------------------------------ *)
(* GET /api/stream: the loop over the events of routeAndAnswerStream        *)
(* ------------------------------------------------------------------------ *)

ZeroWidth == {"U+200B", "U+200C", "U+200D", "U+FEFF"}

\* the control characters cleanDelta removes (not line feed, carriage return, tab)
Control == {"U+0000", "U+0007", "U+000B", "U+001F"}

\* cleanDelta(s)
cleanDelta(s) ==
  SelectSeq(s, LAMBDA c : c \notin {"[object Object]"} \cup ZeroWidth \cup Control)

Frame(kind, it, name, delta, error) ==
  [kind |-> kind, intent |-> it, agentName |-> name, delta |-> delta, error |-> error]

IntentFrame(it, name) == Frame("intent", it, name, <<>>, "")
DeltaFrame(d)         == Frame("delta", "", "", d, "")
ErrorFrame(error)     == Frame("error", "", "", <<>>, error)
DoneFrame             == Frame("done", "", "", <<>>, "")
\* the comment the keep-alive timer writes
KeepAliveFrame        == Frame("keep-alive", "", "", <<>>, "")

\* res.write of a data frame: nothing is sent on a response that has ended
Write(st, frame) ==
  IF st.closed # "none" THEN [st EXCEPT !.lateWrites = Append(@, frame)]
  ELSE [st EXCEPT !.frames = Append(@, frame)]

\* a variant that writes the text of a delta event as it is
OnMsgRawDelta(st, msg) ==
  CASE msg.type = "intent" -> Write(st, IntentFrame(msg.intent, msg.agentName))
    [] msg.type = "delta" -> IF msg.delta # <<>> THEN Write(st, DeltaFrame(msg.delta)) ELSE st
    [] msg.type = "error" -> Write(st, ErrorFrame(msg.error))
    [] msg.type = "done" -> [Write(st, DoneFrame) EXCEPT !.sentDone = TRUE]
    [] OTHER -> st

\* the body of the loop on one event
OnMsg(st, msg) ==
  CASE msg.type = "intent" -> Write(st, IntentFrame(msg.intent, msg.agentName))
    [] msg.type = "delta" ->
         IF cleanDelta(msg.delta) # <<>> THEN Write(st, DeltaFrame(cleanDelta(msg.delta)))
         ELSE st
    [] msg.type = "error" -> Write(st, ErrorFrame(msg.error))
    [] msg.type = "done" -> [Write(st, DoneFrame) EXCEPT !.sentDone = TRUE]
    [] OTHER -> st

\* the loop takes the events routeAndAnswerStream has yielded and it has not taken
RECURSIVE Consume(_)
Consume(st) ==
  IF st.served >= Len(st.events) THEN st
  ELSE Consume(OnMsg([st EXCEPT !.served = @ + 1], st.events[st.served + 1]))

\* a variant of cleanup() that leaves the timer running
CleanupKeepsTimer(st, who) ==
  [st EXCEPT !.aborted = TRUE, !.closed = IF @ = "none" THEN who ELSE @]

\* cleanup(): the timer is cleared, the signal is aborted and the response is ended
Cleanup(st, who) ==
  [st EXCEPT !.keepAlive.on = FALSE, !.aborted = TRUE,
             !.closed = IF @ = "none" THEN who ELSE @]

\* the callback of the keep-alive timer: res.write of a comment
KeepAliveWrite(st) ==
  IF st.closed # "none" THEN [st EXCEPT !.lateWrites = Append(@, KeepAliveFrame)]
  ELSE [st EXCEPT !.keepAlive.ticks = @ + 1]

\* a variant that writes the final done frame whatever sentDone is
AfterLoopAlwaysDone(st) == Cleanup([Write(st, DoneFrame) EXCEPT !.sentDone = TRUE], "server")

\* after the loop: the final done frame if none was sent, then finally
AfterLoop(st) ==
  Cleanup(IF st.sentDone THEN st ELSE [Write(st, DoneFrame) EXCEPT !.sentDone = TRUE],
          "server")

\* the catch block, then finally
HandlerCatch(st) == Cleanup(Write(st, ErrorFrame("Agent error")), "server")

HandlerEnd(st) ==
  IF st.pc = "finished" THEN AfterLoop(st)
  ELSE IF st.pc = "thrown" THEN HandlerCatch(st)
  ELSE st

\* what GET /api/stream does with the generator in state st
Serve(st) == IF st.mode = "stream" THEN HandlerEnd(Consume(st)) ELSE st

Assign(n) ==
  /\ mode' = n.mode
  /\ text' = n.text
  /\ pc' = n.pc
  /\ aborted' = n.aborted
  /\ env' = n.env
  /\ cls' = n.cls
  /\ intent' = n.intent
  /\ calls' = n.calls
  /\ askStage' = n.askStage
  /\ events' = n.events
  /\ jsonBuf' = n.jsonBuf
  /\ pulled' = n.pulled
  /\ tdPending' = n.tdPending
  /\ delivered' = n.delivered
  /\ requests' = n.requests
  /\ caught' = n.caught
  /\ result' = n.result
  /\ lastOut' = n.lastOut
  /\ deltaSrc' = n.deltaSrc
  /\ bufSrc' = n.bufSrc
  /\ frames' = n.frames
  /\ served' = n.served
  /\ sentDone' = n.sentDone
  /\ closed' = n.closed
  /\ lateYields' = n.lateYields
  /\ pulledBy' = n.pulledBy
  /\ keepAlive' = n.keepAlive
  /\ lateWrites' = n.lateWrites

\* the request goes on to state n and GET /api/stream takes what it yielded
Become(n) ==
  Assign(Serve(n)) /\ other' = other /\ auth' = auth /\ penv' = penv /\ chat' = chat

(* ------------------------------------------------------------------------ *)
(* Prompts and provider calls                                               *)
(* ------------------------------------------------------------------------ *)

Includes(t, words) == \E i \in 1..Len(t) : t[i] \in words

\* buildToolContext(text): the lines of tool context (fxGetRate is a stub that
\* always answers with a rate)
buildToolContext(t) ==
  (IF Includes(t, {"usd", "eur", "ils", "exchange", "convert", "currency"})
   THEN <<"FX Example (source: tool)">> ELSE <<>>) \o
  (IF Includes(t, {"fees", "commission", "spread"})
   THEN <<"Fees Example">> ELSE <<>>)

\* buildUserPrompt({userText, toolContext}): the lines joined into the prompt
buildUserPrompt(t, toolContext) ==
  <<"User request:", "[code fence]">> \o t \o <<"[code fence]">> \o
  (IF toolContext # <<>> THEN <<"Available tool context:">> \o toolContext ELSE <<>>) \o
  <<"Follow the required section headings exactly.">>

\* the system prompt each call site gives the model
SysPrompt(site) ==
  CASE site = "classify" -> "INTENT_SYS"
    [] site = "code" -> "CODE_SYS"
    [] site = "finance" -> "FIN_SYS"
    [] OTHER -> "GEN_SYS"

\* a variant that gives the model the request text at every call site
RawUserPrompt(site, t) == t

\* the user prompt each call site gives the model
ModelUserPrompt(site, t) ==
  IF site = "finance" THEN buildUserPrompt(t, buildToolContext(t)) ELSE t

\* the environment variables that hold the agent id and alias id of a call site
AgentVar(site, m) ==
  CASE site = "classify" -> "BEDROCK_CLASSIFY"
    [] site = "code" -> "BEDROCK_CODE_AGENT"
    [] site = "finance" -> "BEDROCK_FINANCE_AGENT"
    [] OTHER -> IF m = "block" THEN "BEDROCK_GENERIC_AGENT" ELSE "BEDROCK_GENERAL_AGENT"

\* whether a call is handed the request's signal: the streaming responders pass it to
\* invokeAgentStream and to askStream; classifyIntent gets none and passes none
SignalPassed(api, site) == site # "classify" /\ api \in {"invokeAgentStream", "askStream"}

Call(api, site, sys, user) ==
  [api |-> api, site |-> site, system |-> sys, user |-> user, status |-> "pending",
   signal |-> SignalPassed(api, site)]

\* the last call gets its outcome
Settle(cs, status) == [cs EXCEPT ![Len(cs)].status = status]

AgentName(it) ==
  IF it = "code" THEN "Code Agent"
  ELSE IF it = "finance" THEN "Finance Agent"
  ELSE "General Agent"

LabelName(cs) ==
  CASE cs = LabelCode -> "code"
    [] cs = LabelFinance -> "finance"
    [] cs = LabelGeneral -> "general"
    [] OTHER -> "none"

\* normalize(out) of the responders
normalize(out) == Trim(SelectSeq(out, LAMBDA c : c # "[object Object]"))

(* ------------------------------------------------------------------------ *)
(* routeAndAnswerStream: the loop body, the flush, the catch block          *)
(* ------------------------------------------------------------------------ *)

\* yield { type: "delta", intent, delta } with text d that comes from pieces src
YieldDelta(st, d, src) ==
  [st EXCEPT !.events = Append(@, DeltaEv(st.intent, d)),
             !.deltaSrc = Append(@, src)]

\* the buffer parsed: it is cleared and the delta text, if not empty, is yielded
BufferParsed(st, idx, deltaText) ==
  IF Truthy(deltaText)
  THEN [YieldDelta(st, JsString(deltaText), st.bufSrc \cup {idx})
          EXCEPT !.jsonBuf = <<>>, !.bufSrc = {}]
  ELSE [st EXCEPT !.jsonBuf = <<>>, !.bufSrc = {}]

\* a variant that drops a buffer that does not parse
BufferTryDropping(st, idx, buf, p) ==
  IF p.ok THEN BufferParsed(st, idx, deltaTextOf(p.v))
  ELSE [st EXCEPT !.jsonBuf = <<>>, !.bufSrc = {}]

\* the try block around JSON.parse(jsonBuf), jsonBuf being buf now
BufferTry(st, idx, buf, p) ==
  IF p.ok THEN BufferParsed(st, idx, deltaTextOf(p.v))
  ELSE [st EXCEPT !.jsonBuf = buf, !.bufSrc = @ \cup {idx}]

\* a variant without the passthrough of the code label
BodyOnParsing(st, idx, s, trimmed) ==
  IF s = <<>> THEN st
  ELSE IF looksJson(trimmed)
       THEN BufferTry(st, idx, st.jsonBuf \o trimmed, JsonParse(st.jsonBuf \o trimmed))
  ELSE YieldDelta(st, s, {idx})

BodyOn(st, idx, s, trimmed) ==
  IF s = <<>> THEN st
  ELSE IF st.intent = "code" THEN YieldDelta(st, s, {idx})
  ELSE IF looksJson(trimmed)
       THEN BufferTry(st, idx, st.jsonBuf \o trimmed, JsonParse(st.jsonBuf \o trimmed))
  ELSE YieldDelta(st, s, {idx})

\* one iteration of the for-await loop after the abort check, on the piece just received
\* (already appended to pulled)
RouterBody(st, piece) ==
  BodyOn(st, Len(st.pulled), normalizeToString(piece), Trim(normalizeToString(piece)))

Done(st) == [st EXCEPT !.events = Append(@, DoneEv(st.intent)), !.pc = "finished"]

\* a variant that clears the buffer without yielding it
RouterEndNoFlush(st) == Done([st EXCEPT !.jsonBuf = <<>>, !.bufSrc = {}])

\* the flush of the buffer after the loop and the final yield of done
RouterEnd(st) ==
  IF Trim(st.jsonBuf) # <<>>
  THEN Done([YieldDelta(st, st.jsonBuf, st.bufSrc) EXCEPT !.jsonBuf = <<>>, !.bufSrc = {}])
  ELSE Done(st)

\* the catch block, then the final yield of done
RouterCatch(st, e) ==
  [st EXCEPT !.events = @ \o <<ErrorEv(st.intent), DoneEv(st.intent)>>,
             !.caught = e, !.jsonBuf = <<>>, !.bufSrc = {}, !.pc = "finished"]

AskNext(st) == [st EXCEPT !.requests = @ + 1]

\* the piece cs reaches the loop from the stream of the responder's last call
Pulled(st, cs) ==
  [st EXCEPT !.pulled = Append(@, cs),
             !.pulledBy = Append(@, st.calls[Len(st.calls)].api)]

\* the loop receives a piece from the responder; more is TRUE when the responder's
\* stream is still open, and then the loop asks for the next piece, which makes the
\* provider ask the upstream for its next event
RouterOnPiece(st, cs, more) ==
  IF st.aborted THEN RouterEnd(Pulled(st, cs))
  ELSE IF more THEN AskNext(RouterBody(Pulled(st, cs), JStr(cs)))
  ELSE RouterEnd(RouterBody(Pulled(st, cs), JStr(cs)))

(* ------------------------------------------------------------------------ *)
(* The streaming responders: codingAgentStream, financeAgentStream,         *)
(* genericAgentStream                                                       *)
(* ------------------------------------------------------------------------ *)

\* the model part of a streaming responder; modelOk: a model id is resolved
StartModelStream(st, modelOk) ==
  IF ~modelOk THEN RouterCatch([st EXCEPT !.env.modelId = "unset"], "NoModelId")
  ELSE [st EXCEPT !.env.modelId = "set",
                  !.calls = Append(@, Call("askStream", st.intent, SysPrompt(st.intent),
                                           ModelUserPrompt(st.intent, st.text))),
                  !.pc = "md_send"]

\* a variant that takes the agent path on the agent id alone
StartStreamIdOnly(st, e) ==
  IF e.agentId
  THEN [st EXCEPT !.env.responder = [agentVar |-> AgentVar(st.intent, "stream"),
                                     agentId |-> e.agentId, aliasId |-> e.aliasId],
                  !.calls = Append(@, Call("invokeAgentStream", st.intent, "none", st.text)),
                  !.pc = "ag_send"]
  ELSE StartModelStream([st EXCEPT !.env.responder =
                           [agentVar |-> AgentVar(st.intent, "stream"),
                            agentId |-> e.agentId, aliasId |-> e.aliasId]], e.modelOk)

\* the first next() on the responder's generator
StartStream(st, e) ==
  IF e.agentId /\ e.aliasId
  THEN [st EXCEPT !.env.responder = [agentVar |-> AgentVar(st.intent, "stream"),
                                     agentId |-> e.agentId, aliasId |-> e.aliasId],
                  !.calls = Append(@, Call("invokeAgentStream", st.intent, "none", st.text)),
                  !.pc = "ag_send"]
  ELSE StartModelStream([st EXCEPT !.env.responder =
                           [agentVar |-> AgentVar(st.intent, "stream"),
                            agentId |-> e.agentId, aliasId |-> e.aliasId]], e.modelOk)

\* the catch block of invokeAgentStream, and what the responder does with its outcome
AgentStreamCatch(st, err, modelOk) ==
  IF st.aborted /\ err = "AbortError"
  THEN RouterEnd([st EXCEPT !.calls = Settle(@, "returned")])
  ELSE StartModelStream([st EXCEPT !.calls = Settle(@, "raised")], modelOk)

(* ------------------------------------------------------------------------ *)
(* The single-shot responders: codingAgent, financeAgent, genericAgent      *)
(* ------------------------------------------------------------------------ *)

\* llm.ask({systemPrompt, userPrompt}) of a call site
GoAsk(st, site) ==
  [st EXCEPT !.calls = Append(@, Call("ask", site, SysPrompt(site),
                                      ModelUserPrompt(site, st.text))),
             !.askStage = "converse",
             !.pc = IF site = "classify" THEN "cls_model" ELSE "rb_model"]

\* a variant that always takes the general responder
StartBlockGeneral(st, e) ==
  IF e.agentId /\ e.aliasId
  THEN [st EXCEPT !.env.responder = [agentVar |-> AgentVar("general", "block"),
                                     agentId |-> e.agentId, aliasId |-> e.aliasId],
                  !.calls = Append(@, Call("invokeAgentText", "general", "none", st.text)),
                  !.pc = "rb_agent"]
  ELSE GoAsk([st EXCEPT !.env.responder =
                [agentVar |-> AgentVar("general", "block"), agentId |-> e.agentId,
                 aliasId |-> e.aliasId]], "general")

StartBlock(st, e) ==
  IF e.agentId /\ e.aliasId
  THEN [st EXCEPT !.env.responder = [agentVar |-> AgentVar(st.intent, "block"),
                                     agentId |-> e.agentId, aliasId |-> e.aliasId],
                  !.calls = Append(@, Call("invokeAgentText", st.intent, "none", st.text)),
                  !.pc = "rb_agent"]
  ELSE GoAsk([st EXCEPT !.env.responder =
                [agentVar |-> AgentVar(st.intent, "block"), agentId |-> e.agentId,
                 aliasId |-> e.aliasId]], st.intent)

\* the responder returns normalize(answer) and routeAndAnswer wraps it
Answered(st, answer) ==
  [st EXCEPT !.calls = Settle(@, "returned"),
             !.askStage = "none",
             !.lastOut = answer,
             !.result = [ok |-> TRUE, intent |-> st.intent, agentName |-> AgentName(st.intent),
                         answer |-> normalize(answer)],
             !.pc = "returned"]

(* ------------------------------------------------------------------------ *)
(* classifyIntent                                                           *)
(* ------------------------------------------------------------------------ *)

ValidLabels == {LabelCode, LabelFinance, LabelGeneral}

LabelOf(rawLabel) == ToLowerCase(IF Truthy(rawLabel) THEN JsString(rawLabel) ELSE <<>>)

\* a variant that takes the label without testing it against the three labels
LabelledUnchecked(parsed, label, confidence, source) ==
  IF Truthy(parsed)
  THEN [ok |-> TRUE, label |-> LabelName(label), confidence |-> confidence,
        source |-> source]
  ELSE NoCls

Labelled(parsed, label, confidence, source) ==
  IF Truthy(parsed) /\ label \in ValidLabels
  THEN [ok |-> TRUE, label |-> LabelName(label), confidence |-> confidence,
        source |-> source]
  ELSE NoCls

ResultOf(parsed, source) ==
  Labelled(parsed, LabelOf(Get(parsed, KeyLabel)), clamp01(Get(parsed, KeyConfidence)),
           source)

\* the parse of an upstream answer and the check of its label: ok FALSE when
\* classifyIntent does not return on it
classifyParsed(out, source) == ResultOf(safeParseJson(out), source)

DefaultCls == [ok |-> TRUE, label |-> "general", confidence |-> 50, source |-> "fallback"]

\* classifyIntent returns r
Classified(st, r) ==
  [st EXCEPT !.cls = r, !.askStage = "none", !.pc = "classified"]

OrDefault(r) == IF r.ok THEN r ELSE DefaultCls

\* BedrockLLM.ask returns out to its call site
AskReturned(st, out) ==
  IF st.pc = "cls_model"
  THEN Classified([st EXCEPT !.calls = Settle(@, "returned"), !.lastOut = out],
                  OrDefault(classifyParsed(out, "llm")))
  ELSE Answered(st, out)

\* BedrockLLM.ask throws: neither classifyIntent nor a responder catches it
AskThrew(st) ==
  [st EXCEPT !.calls = Settle(@, "raised"), !.askStage = "none", !.pc = "thrown"]

\* what ask can return at a call site
AskOutputs(at) == IF at = "cls_model" THEN ClassifierOutputs ELSE Answers

(* ------------------------------------------------------------------------ *)
(* Actions: classification                                                  *)
(* ------------------------------------------------------------------------ *)

StartClassify(st, useAgent) ==
  IF useAgent
  THEN [st EXCEPT !.calls = Append(@, Call("invokeAgentText", "classify", "none", st.text)),
                  !.pc = "cls_agent"]
  ELSE GoAsk(st, "classify")

\* a variant that asks the model whatever the agent answered
AgentAnsweredAsksAnyway(st, r) == GoAsk(st, "classify")

AgentAnswered(st, r) == IF r.ok THEN Classified(st, r) ELSE GoAsk(st, "classify")

TakeLabel(st, e) ==
  IF st.mode = "stream"
  THEN StartStream([st EXCEPT !.events = <<IntentEv(st.intent, AgentName(st.intent))>>], e)
  ELSE StartBlock(st, e)

\* classifyIntent reads its agent settings and makes its first call
Start ==
  /\ pc = "start"
  /\ auth.admitted
  /\ \E agentId \in ClassifierSetting, aliasId \in ClassifierSetting :
       Become(StartClassify([Cur EXCEPT !.env.classify =
                               [agentVar |-> AgentVar("classify", mode),
                                agentId |-> agentId, aliasId |-> aliasId]],
                            agentId /\ aliasId))

\* invokeAgentText returns the agent's text to classifyIntent
ClsAgentReturns ==
  /\ pc = "cls_agent"
  /\ \E out \in Offered(ClassifierOutputs) :
       Become(AgentAnswered([Cur EXCEPT !.calls = Settle(@, "returned"), !.lastOut = out],
                            classifyParsed(out, "agent")))

\* invokeAgentText raises (the send fails, or the response has no completion)
ClsAgentRaises ==
  /\ pc = "cls_agent"
  /\ \E err \in AgentErrors \cup {"NoCompletion"} :
       Become(GoAsk([Cur EXCEPT !.calls = Settle(@, "raised")], "classify"))

\* the Converse call of ask returns
AskConverseReturns ==
  /\ pc \in {"cls_model", "rb_model"}
  /\ askStage = "converse"
  /\ \E out \in Offered(AskOutputs(pc)) : Become(AskReturned(Cur, out))

\* the credentials check or the Converse call of ask fails: ask throws on a credentials,
\* access or model-id error and otherwise goes on to InvokeModel
AskConverseRaises ==
  /\ pc \in {"cls_model", "rb_model"}
  /\ askStage = "converse"
  /\ \E err \in {"Credentials", "AccessDeniedException", "InvalidModelId", "Other"} :
       Become(IF err = "Other" THEN [Cur EXCEPT !.askStage = "invoke"] ELSE AskThrew(Cur))

\* the InvokeModel call of ask returns
AskInvokeReturns ==
  /\ pc \in {"cls_model", "rb_model"}
  /\ askStage = "invoke"
  /\ \E out \in Offered(AskOutputs(pc)) : Become(AskReturned(Cur, out))

\* the InvokeModel call of ask fails
AskInvokeRaises ==
  /\ pc \in {"cls_model", "rb_model"}
  /\ askStage = "invoke"
  /\ Become(AskThrew(Cur))

\* routeAndAnswer / routeAndAnswerStream take the label, (stream) yield the intent
\* event and start the responder of the label
Dispatch ==
  /\ pc = "classified"
  /\ \E agentId \in IdSetting(AgentVar(cls.label, mode)),
        aliasId \in AliasSetting(AgentVar(cls.label, mode)), modelOk \in Setting :
       Become(TakeLabel([Cur EXCEPT !.intent = cls.label, !.cls = NoCls, !.lastOut = <<>>],
                        [agentId |-> agentId, aliasId |-> aliasId, modelOk |-> modelOk]))

(* ------------------------------------------------------------------------ *)
(* Actions: the single-shot responders                                      *)
(* ------------------------------------------------------------------------ *)

RbAgentReturns ==
  /\ pc = "rb_agent"
  /\ \E answer \in Answers : Become(Answered(Cur, answer))

RbAgentRaises ==
  /\ pc = "rb_agent"
  /\ \E err \in AgentErrors \cup {"NoCompletion"} :
       Become(GoAsk([Cur EXCEPT !.calls = Settle(@, "raised")], intent))

(* ------------------------------------------------------------------------ *)
(* Actions: cancellation                                                    *)
(* ------------------------------------------------------------------------ *)

Waiting == {"cls_agent", "cls_model", "ag_send", "ag_pull", "md_send", "md_pull"}

\* the client goes away while the request waits for an upstream: cleanup() aborts
Abort ==
  /\ mode = "stream"
  /\ pc \in Waiting
  /\ ~aborted
  /\ Assign(Cleanup(Cur, "client"))
  /\ other' = other
  /\ auth' = auth
  /\ penv' = penv
  /\ chat' = chat

\* the keep-alive timer fires while the handler waits for an upstream
KeepAliveTick ==
  /\ mode = "stream"
  /\ pc \in Waiting
  /\ keepAlive.on
  /\ keepAlive.ticks < MaxTicks
  /\ Assign(KeepAliveWrite(Cur))
  /\ other' = other
  /\ auth' = auth
  /\ penv' = penv
  /\ chat' = chat

(* ------------------------------------------------------------------------ *)
(* Actions: invokeAgentStream under a streaming responder                   *)
(* ------------------------------------------------------------------------ *)

ReplacementChar == "U+FFFD"

\* client.send resolves; without a completion invokeAgentStream throws
AgSendReturns ==
  /\ pc = "ag_send"
  /\ \E completion \in BOOLEAN, modelOk \in Setting :
       Become(IF completion
              THEN [Cur EXCEPT !.requests = @ + 1, !.pc = "ag_pull"]
              ELSE AgentStreamCatch(Cur, "NoCompletion", modelOk))

AgSendRaises ==
  /\ pc = "ag_send"
  /\ \E err \in StreamErrors(aborted), modelOk \in Setting :
       Become(AgentStreamCatch(Cur, err, modelOk))

\* td.decode() after the loop with the signal aborted: the tail is yielded if
\* there is one, and the responder, which tests the signal, returns on it
LateTail(st) ==
  [st EXCEPT !.tdPending = FALSE,
             !.lateYields = IF st.tdPending THEN Append(@, <<ReplacementChar>>) ELSE @]

\* the abort check of invokeAgentStream's loop is true: break, the decoder's tail
\* is yielded if there is one, and the responder returns on it
AgentBreak(st) == RouterEnd([LateTail(st) EXCEPT !.calls = Settle(@, "returned")])

\* the loop body of invokeAgentStream on a chunk event
AgentChunk(st, f, partial) ==
  IF st.aborted THEN AgentBreak(st)
  ELSE IF f = <<>> THEN AskNext([st EXCEPT !.tdPending = partial])
  ELSE RouterOnPiece([st EXCEPT !.tdPending = partial], f, TRUE)

\* the loop body of invokeAgentStream on an event without chunk bytes
AgentNonChunk(st) == IF st.aborted THEN AgentBreak(st) ELSE AskNext(st)

\* the end of invokeAgentStream's loop: the decoder's tail is yielded if there is one
AgentEnd(st, tail) ==
  IF tail /\ ~st.aborted THEN RouterOnPiece(st, <<ReplacementChar>>, FALSE)
  ELSE IF tail THEN RouterEnd([st EXCEPT !.lateYields = Append(@, <<ReplacementChar>>)])
  ELSE RouterEnd(st)

\* the loop body of a streaming responder over askStream on a chunk event
ModelChunk(st, f) ==
  IF st.aborted THEN RouterEnd([st EXCEPT !.calls = Settle(@, "returned")])
  ELSE RouterOnPiece(st, f, TRUE)

\* a chunk event arrives: f is the text decoded from it and partial tells whether
\* its bytes end inside a character
AgChunk ==
  /\ pc = "ag_pull"
  /\ delivered < Budget
  /\ \E f \in Offered(Fragments), partial \in BOOLEAN :
       Become(AgentChunk([Cur EXCEPT !.delivered = @ + 1], f, partial))

\* an event without chunk bytes arrives (a trace event)
AgNonChunk ==
  /\ pc = "ag_pull"
  /\ delivered < Budget
  /\ Become(AgentNonChunk([Cur EXCEPT !.delivered = @ + 1]))

\* the completion stream ends: the decoder's tail is yielded if there is one
AgEnd ==
  /\ pc = "ag_pull"
  /\ Become(AgentEnd([Cur EXCEPT !.tdPending = FALSE, !.calls = Settle(@, "returned")],
                     tdPending))

AgRaises ==
  /\ pc = "ag_pull"
  /\ \E err \in StreamErrors(aborted), modelOk \in Setting :
       Become(AgentStreamCatch(Cur, err, modelOk))

(* ------------------------------------------------------------------------ *)
(* Actions: BedrockLLM.askStream under a streaming responder                *)
(* ------------------------------------------------------------------------ *)

MdSendReturns ==
  /\ pc = "md_send"
  /\ Become([Cur EXCEPT !.requests = @ + 1, !.pc = "md_pull"])

MdSendRaises ==
  /\ pc = "md_send"
  /\ \E err \in StreamErrors(aborted) :
       Become(RouterCatch([Cur EXCEPT !.calls = Settle(@, "raised")], err))

\* a chunk event arrives: askStream yields its text, the responder returns if the
\* signal is aborted and yields it to the router otherwise
MdChunk ==
  /\ pc = "md_pull"
  /\ delivered < Budget
  /\ \E f \in Offered(Fragments) : Become(ModelChunk([Cur EXCEPT !.delivered = @ + 1], f))

\* a chunk event arrives with a whole object of a provider schema
MdSchemaChunk ==
  /\ pc = "md_pull"
  /\ delivered < SchemaFrags
  /\ \E f \in SchemaObjects : Become(ModelChunk([Cur EXCEPT !.delivered = @ + 1], f))

\* an event without a chunk arrives: askStream asks for the next one
MdNonChunk ==
  /\ pc = "md_pull"
  /\ delivered < Budget
  /\ Become([Cur EXCEPT !.delivered = @ + 1, !.requests = @ + 1])

MdEnd ==
  /\ pc = "md_pull"
  /\ Become(RouterEnd([Cur EXCEPT !.calls = Settle(@, "returned")]))

MdRaises ==
  /\ pc = "md_pull"
  /\ \E err \in StreamErrors(aborted) :
       Become(RouterCatch([Cur EXCEPT !.calls = Settle(@, "raised")], err))

(* ------------------------------------------------------------------------ *)
(* Specification                                                            *)
(* ------------------------------------------------------------------------ *)

Next ==
  \/ Start
  \/ ClsAgentReturns
  \/ ClsAgentRaises
  \/ AskConverseReturns
  \/ AskConverseRaises
  \/ AskInvokeReturns
  \/ AskInvokeRaises
  \/ Dispatch
  \/ RbAgentReturns
  \/ RbAgentRaises
  \/ Abort
  \/ AgSendReturns
  \/ AgSendRaises
  \/ AgChunk
  \/ AgNonChunk
  \/ AgEnd
  \/ AgRaises
  \/ MdSendReturns
  \/ MdSendRaises
  \/ MdChunk
  \/ MdNonChunk
  \/ MdEnd
  \/ MdRaises

Spec == Init /\ [][Next]_vars

(* ------------------------------------------------------------------------ *)
(* Two streaming requests in one process                                    *)
(* ------------------------------------------------------------------------ *)

\* two GET /api/stream requests have arrived
InitPair ==
  /\ InitRequest
  /\ mode = "stream"
  /\ text = TextPlain
  /\ other = [Cur EXCEPT !.text = TextFx]
  /\ auth = NoAuth
  /\ penv = NoPenv
  /\ chat = NoChat

\* a variant with jsonBuf at module level, one buffer for every request
ResumeSharedBuffer ==
  /\ other.mode # "none"
  /\ Assign([other EXCEPT !.jsonBuf = jsonBuf])
  /\ other' = Cur
  /\ auth' = auth
  /\ penv' = penv
  /\ chat' = chat

\* the event loop leaves the running request at its await and resumes the other one:
\* its jsonBuf, cls and the rest are the locals of its own call of
\* routeAndAnswerStream, its signal is the one of its own AbortController
Resume ==
  /\ other.mode # "none"
  /\ Assign(other)
  /\ other' = Cur
  /\ auth' = auth
  /\ penv' = penv
  /\ chat' = chat

NextPair ==
  \/ Start
  \/ AskConverseReturns
  \/ AskConverseRaises
  \/ AskInvokeReturns
  \/ AskInvokeRaises
  \/ Dispatch
  \/ Abort
  \/ AgSendReturns
  \/ AgSendRaises
  \/ AgChunk
  \/ AgNonChunk
  \/ AgEnd
  \/ AgRaises
  \/ MdSendReturns
  \/ MdSendRaises
  \/ MdChunk
  \/ MdNonChunk
  \/ MdEnd
  \/ MdRaises
  \/ Resume

SpecPair == InitPair /\ [][NextPair]_vars

(* ------------------------------------------------------------------------ *)
(* A streaming request whose model sends objects of the provider schemas    *)
(* ------------------------------------------------------------------------ *)

InitSchema == Init /\ mode = "stream" /\ text = TextPlain

NextSchema ==
  \/ Start
  \/ AskConverseReturns
  \/ Dispatch
  \/ MdSendReturns
  \/ MdSchemaChunk
  \/ MdEnd

SpecSchema == InitSchema /\ [][NextSchema]_vars

(* ------------------------------------------------------------------------ *)
(* requireAuth in front of POST /api/chat and GET /api/stream               *)
(* ------------------------------------------------------------------------ *)

Bearer    == <<"B", "e", "a", "r", "e", "r", " ">>
\* a token jwt.verify accepts, and one it throws on
GoodToken == <<"g", "o", "o", "d">>
BadToken  == <<"b", "a", "d">>

\* the Authorization header: none, a token with or without the Bearer prefix, the
\* prefix alone, the empty string
HeaderValues ==
  {Absent, Str(<<>>), Str(Bearer), Str(GoodToken), Str(BadToken), Str(Bearer \o GoodToken),
   Str(Bearer \o BadToken)}

\* req.query.token: none, a string, or an array (?token=a&token=b)
QueryValues == {Absent, Str(<<>>), Str(GoodToken), Str(BadToken), Arr}

\* the truth value of a header or query value
Given(v) == v.kind = "array" \/ (v.kind = "string" /\ v.chars # <<>>)

\* cs.startsWith(pre)
StartsWith(cs, pre) == Len(cs) >= Len(pre) /\ SubSeq(cs, 1, Len(pre)) = pre

\* authHeader.startsWith("Bearer ") ? authHeader.slice(7) : authHeader
TokenOf(cs) == IF StartsWith(cs, Bearer) THEN SubSeq(cs, Len(Bearer) + 1, Len(cs)) ELSE cs

\* verifyToken(token) returns (TRUE) or throws (FALSE)
verifyToken(token) == token = GoodToken

\* requireAuth's middleware on authHeader: 401 without one, next() with a token that
\* verifies, 401 with one that does not; a value that is no string has no startsWith,
\* and the TypeError goes to the error handler, which answers 500
Authorize(a, authHeader) ==
  IF ~Given(authHeader) THEN [a EXCEPT !.status = 401]
  ELSE IF authHeader.kind # "string" THEN [a EXCEPT !.status = 500]
  ELSE IF verifyToken(TokenOf(authHeader.chars)) THEN [a EXCEPT !.admitted = TRUE]
  ELSE [a EXCEPT !.status = 401]

requireAuth(a) == Authorize(a, IF Given(a.header) THEN a.header ELSE a.query)

\* the middleware runs on the request
RequireAuth ==
  /\ ~auth.admitted
  /\ auth.status = 0
  /\ auth' = requireAuth(auth)
  /\ UNCHANGED <<mode, text, pc, aborted, env, cls, intent, calls, askStage, events, jsonBuf,
                 pulled, tdPending, delivered, requests, caught, result, lastOut, deltaSrc,
                 bufSrc, frames, served, sentDone, closed, lateYields, pulledBy,
                 keepAlive, lateWrites, other, penv, chat>>

\* a request arrives with any header and any token parameter
InitAuth ==
  /\ InitRequest
  /\ other = NoOther
  /\ auth \in {[header |-> h, query |-> q, status |-> 0, admitted |-> FALSE] :
                h \in HeaderValues, q \in QueryValues}
  /\ penv = NoPenv
  /\ chat = NoChat

NextAuth ==
  \/ RequireAuth
  \/ Start
  \/ ClsAgentReturns
  \/ AskConverseReturns
  \/ Dispatch

SpecAuth == InitAuth /\ [][NextAuth]_vars

\* the agent variables the finance and general responders read
ResponderVars ==
  {AgentVar(site, m) : site \in {"finance", "general"}, m \in {"block", "stream"}}

\* one process with its environment fixed serves a GET /api/stream request and a
\* POST /api/chat request with the same text
InitEnv ==
  /\ InitRequest
  /\ mode = "stream"
  /\ text = TextPlain
  /\ other = [Cur EXCEPT !.mode = "block", !.keepAlive.on = FALSE]
  /\ auth = NoAuth
  /\ penv \in {[known |-> TRUE, ids |-> I, aliases |-> A] :
                I \in SUBSET ResponderVars, A \in SUBSET ResponderVars}
  /\ chat = NoChat

NextEnv ==
  \/ Start
  \/ AskConverseReturns
  \/ Dispatch
  \/ Resume

SpecEnv == InitEnv /\ [][NextEnv]_vars

\* one GET /api/stream request with its keep-alive timer, answered by the model
InitHandler == Init /\ mode = "stream" /\ text = TextPlain

NextHandler ==
  \/ Start
  \/ ClsAgentReturns
  \/ ClsAgentRaises
  \/ AskConverseReturns
  \/ AskConverseRaises
  \/ AskInvokeReturns
  \/ AskInvokeRaises
  \/ Dispatch
  \/ Abort
  \/ KeepAliveTick
  \/ AgSendRaises
  \/ MdSendReturns
  \/ MdSendRaises
  \/ MdChunk
  \/ MdEnd
  \/ MdRaises

SpecHandler == InitHandler /\ [][NextHandler]_vars

(* ------------------------------------------------------------------------ *)
(* ChatBox: send, cancel and cleanup of the client component                *)
(* ------------------------------------------------------------------------ *)

\* a call of send: where it waits ("fetch", "text" for res.text() of a response that
\* is not OK, "read" for reader.read(), "over"), whether its controller is aborted,
\* the frames it has read, the deltas in its acc, and how it ended
NewSend == [at |-> "fetch", aborted |-> FALSE, reads |-> 0, acc |-> 0, how |-> "none"]

\* a message of the list: its role, the call of send it was written by (0 for cancel)
\* and, for the assistant's text, the deltas in it
Message(role, k, n) == [role |-> role, send |-> k, text |-> n]

\* pushMessage(msg)
PushMessage(c, msg) == [c EXCEPT !.messages = Append(@, msg)]

\* updateLastAssistant(text), called by call k of send
updateLastAssistant(c, k, n) ==
  IF c.messages = <<>> THEN c
  ELSE [c EXCEPT !.messages[Len(c.messages)] = Message("assistant", k, n)]

\* streamRef.current?.abort(); streamRef.current = null
AbortRef(c) ==
  IF c.streamRef = 0 THEN c
  ELSE [c EXCEPT !.sends[c.streamRef].aborted = TRUE, !.streamRef = 0]

\* cleanup(note)
ChatCleanup(c) == [AbortRef(c) EXCEPT !.sending = FALSE]

\* a variant of cancel() that resets the state without aborting the stream
CancelKeepsStream(c) ==
  PushMessage([c EXCEPT !.sending = FALSE, !.streamRef = 0], Message("system", 0, 0))

\* cancel(): the first version does nothing without a controller in streamRef
ChatCancel(c) ==
  IF c.version = 1 /\ c.streamRef = 0 THEN c
  ELSE PushMessage([AbortRef(c) EXCEPT !.sending = FALSE], Message("system", 0, 0))

\* send(e) up to its fetch, with a token and a prompt
ChatSend(c) ==
  [AbortRef(c) EXCEPT !.sends = Append(@, NewSend), !.streamRef = Len(c.sends) + 1,
                      !.sending = TRUE,
                      !.messages = @ \o <<Message("user", Len(c.sends) + 1, 0),
                                          Message("assistant", Len(c.sends) + 1, 0)>>]

\* send(e) with a token and a prompt: it returns at once while sending is true
ChatSubmit(c) == IF c.sending THEN c ELSE ChatSend(c)

\* call k of send is over
Over(c, k, how) == [c EXCEPT !.sends[k].at = "over", !.sends[k].how = how]

\* the catch block of send
SendCatch(c, k, err) ==
  IF err = "AbortError" THEN Over(c, k, "abort")
  ELSE PushMessage(ChatCleanup(Over(c, k, "network")), Message("system", k, 0))

\* a variant that leaves the loop at the end of the stream without cleanup()
AfterReadLoopNoCleanup(c, k) == Over(c, k, "eof")

\* reader.read() gave done: break, then cleanup()
AfterReadLoop(c, k) == ChatCleanup(Over(c, k, "eof"))

\* a frame of the response was read and parsed
OnFrame(c, k, frame) ==
  CASE frame = "error" -> PushMessage(ChatCleanup(Over(c, k, frame)), Message("system", k, 0))
    [] frame = "done" -> ChatCleanup(Over(c, k, frame))
    [] frame = "intent" /\ c.version = 2 ->
         PushMessage([c EXCEPT !.sends[k].reads = @ + 1], Message("system", k, 0))
    [] frame = "delta" ->
         updateLastAssistant([c EXCEPT !.sends[k].reads = @ + 1, !.sends[k].acc = @ + 1],
                             k, c.sends[k].acc + 1)
    [] OTHER -> [c EXCEPT !.sends[k].reads = @ + 1]

ServerIdle ==
  UNCHANGED <<mode, text, pc, aborted, env, cls, intent, calls, askStage, events, jsonBuf,
              pulled, tdPending, delivered, requests, caught, result, lastOut, deltaSrc,
              bufSrc, frames, served, sentDone, closed, lateYields, pulledBy,
              keepAlive, lateWrites, other, auth, penv>>

\* the user submits a prompt
UserSends ==
  /\ Len(chat.sends) < MaxSends
  /\ chat' = ChatSubmit(chat)
  /\ ServerIdle

\* the user clicks Cancel, which is enabled while sending
UserCancels ==
  /\ chat.sending
  /\ chat' = ChatCancel(chat)
  /\ ServerIdle

\* the frames the calls of send have read so far
RECURSIVE FramesRead(_)
FramesRead(sends) ==
  IF sends = <<>> THEN 0 ELSE Head(sends).reads + FramesRead(Tail(sends))

Waits(k, at) == k <= Len(chat.sends) /\ chat.sends[k].at = at

\* fetch resolves with a response, OK or not
FetchResolves(k) ==
  /\ Waits(k, "fetch")
  /\ ~chat.sends[k].aborted
  /\ \E ok \in BOOLEAN : chat' = [chat EXCEPT !.sends[k].at = IF ok THEN "read" ELSE "text"]
  /\ ServerIdle

\* fetch rejects: with an AbortError once the controller is aborted
FetchRejects(k) ==
  /\ Waits(k, "fetch")
  /\ chat' = SendCatch(chat, k, IF chat.sends[k].aborted THEN "AbortError" ELSE "TypeError")
  /\ ServerIdle

\* res.text().catch(() => res.statusText) settles, then cleanup(`HTTP ...`)
TextSettles(k) ==
  /\ Waits(k, "text")
  /\ chat' = PushMessage(ChatCleanup(Over(chat, k, "http")), Message("system", k, 0))
  /\ ServerIdle

\* reader.read() gives a chunk with one frame
ReadFrame(k) ==
  /\ Waits(k, "read")
  /\ ~chat.sends[k].aborted
  /\ FramesRead(chat.sends) < MaxReads
  /\ \E frame \in {"intent", "delta", "comment", "garbage", "error", "done"} :
       chat' = OnFrame(chat, k, frame)
  /\ ServerIdle

\* reader.read() gives done: the stream ended
ReadEnds(k) ==
  /\ Waits(k, "read")
  /\ ~chat.sends[k].aborted
  /\ chat' = AfterReadLoop(chat, k)
  /\ ServerIdle

\* reader.read() rejects: with an AbortError once the controller is aborted
ReadRejects(k) ==
  /\ Waits(k, "read")
  /\ chat' = SendCatch(chat, k, IF chat.sends[k].aborted THEN "AbortError" ELSE "TypeError")
  /\ ServerIdle

\* the promise call k of send awaits settles
Settles(k) ==
  \/ FetchResolves(k)
  \/ FetchRejects(k)
  \/ TextSettles(k)
  \/ ReadFrame(k)
  \/ ReadEnds(k)
  \/ ReadRejects(k)

InitChat ==
  /\ InitRequest
  /\ mode = "stream"
  /\ text = TextPlain
  /\ other = NoOther
  /\ auth = NoAuth
  /\ penv = NoPenv
  /\ \E v \in {1, 2} :
       chat = [version |-> v, sending |-> FALSE, streamRef |-> 0, sends |-> <<>>,
               messages |-> <<>>]

NextChat ==
  \/ UserSends
  \/ UserCancels
  \/ \E k \in 1..MaxSends : Settles(k)

\* every fetch, res.text() and reader.read() of the browser settles
SpecChat ==
  InitChat /\ [][NextChat]_vars /\ \A k \in 1..MaxSends : WF_vars(Settles(k))

(* ------------------------------------------------------------------------ *)
(* Properties                                                               *)
(* ------------------------------------------------------------------------ *)

Terminal == {"error", "done"}

Count(type) == Cardinality({i \in 1..Len(events) : events[i].type = type})

\* the texts of the delta events, in the order they were yielded
DeltaTexts ==
  LET ds == SelectSeq(events, LAMBDA e : e.type = "delta")
  IN [i \in 1..Len(ds) |-> ds[i].delta]

AgentApis == {"invokeAgentText", "invokeAgentStream"}

ModelApi(api) == IF api = "invokeAgentText" THEN "ask" ELSE "askStream"

\* the stream ended by itself: no error was caught, the client did not close
EndedNormally == pc = "finished" /\ caught = "none" /\ closed # "client"

\* C1: the events routeAndAnswerStream yields hold exactly one terminal event (an
\* error or a done, never both) once the generator has completed, and no event
\* follows a terminal event.
OneTerminalEventLast ==
  /\ \A i \in 1..Len(events) : events[i].type \in Terminal => i = Len(events)
  /\ pc = "finished" => Count("error") + Count("done") = 1

\* C2: every run of routeAndAnswerStream yields exactly one intent event, as its
\* first event, with the classified label and the display name of that label.
OneIntentEventFirst ==
  mode = "stream" =>
    /\ \A i \in 1..Len(events) : events[i].type = "intent" <=> i = 1
    /\ events # <<>> =>
         /\ events[1].intent = intent
         /\ events[1].agentName =
              (CASE intent = "code" -> "Code Agent"
                 [] intent = "finance" -> "Finance Agent"
                 [] OTHER -> "General Agent")
    /\ pc \in {"finished", "thrown"} => Count("intent") = 1

\* C3: classifyIntent never raises, and when neither the agent nor the model gave a
\* valid label it returns label general, confidence 0.5, from the default source.
ClassifyIntentIsTotal ==
  /\ ~(pc = "thrown" /\ intent = "none")
  /\ (pc = "classified" /\ ~classifyParsed(lastOut, cls.source).ok) =>
       (cls.label = "general" /\ cls.confidence = 50 /\ cls.source = "fallback")

\* C4: under a non-code label the fragments {"del and ta":"ab"} give exactly one
\* delta event, with the text ab, as the unsplit object does.
SplitObjectGivesOneDelta ==
  (EndedNormally /\ intent # "code" /\ pulled = <<FragDelHead, FragDelTail>>) =>
    DeltaTexts = <<<<"a", "b">>>>

\* C5: delta events keep the order of the fragments: no delta event holds text of a
\* fragment that came before a fragment whose text an earlier delta event holds.
DeltasKeepFragmentOrder ==
  \A a \in 1..Len(deltaSrc) : \A b \in a + 1..Len(deltaSrc) :
    \A i \in deltaSrc[a] : \A j \in deltaSrc[b] : i <= j

\* C6: once the signal is aborted routeAndAnswerStream yields no further delta event.
NoDeltaAfterAbort == [][aborted => Count("delta")' = Count("delta")]_vars

\* C7: once the signal is aborted no further event is requested from the upstream
\* stream.
NoPullAfterAbort == [][aborted => requests' = requests]_vars

\* C8: a request whose upstream answers the abort of the signal with an abort
\* exception yields no error event.
NoErrorEventOnAbort == (closed = "client" /\ caught = "AbortError") => Count("error") = 0

BufferFlushedBeforeDone ==
  [][(pc \in {"ag_pull", "md_pull"} /\ pc' = "finished" /\ caught' = "none" /\ ~aborted
      /\ jsonBuf # <<>>) =>
       /\ Len(events') >= 2
       /\ events'[Len(events') - 1] = DeltaEv(intent, jsonBuf)
       /\ events'[Len(events')].type = "done"
       /\ jsonBuf' = <<>>]_vars

\* the stream ended by itself after {"partial": and that text is the last delta
PartialObjectFlushed ==
  /\ EndedNormally
  /\ pulled # <<>>
  /\ pulled[Len(pulled)] = FragPartial
  /\ Len(events) >= 2
  /\ events[Len(events) - 1] = DeltaEv(intent, FragPartial)
  /\ events[Len(events)].type = "done"

\* C11: under the label code every non-empty fragment the loop received is yielded
\* as one delta event with the text of the fragment as it is, and nothing is
\* buffered.
CodeFragmentsPassThrough ==
  intent = "code" =>
    /\ DeltaTexts = SelectSeq(pulled, LAMBDA f : f # <<>>)
    /\ jsonBuf = <<>>

\* under the label code the fragments { hi } (with its line break) and {"del were
\* yielded as they are
CodeBracesPassedThrough ==
  /\ intent = "code"
  /\ pc = "finished"
  /\ pulled = <<FragCode, FragDelHead>>
  /\ DeltaTexts = <<FragCode, FragDelHead>>

Labels == {"code", "finance", "general"}

\* C12: every result classifyIntent returns has one of the labels code, finance,
\* general, and so has the label the router dispatches on: a label in another letter
\* case is lowercased and a label outside the three is rejected.
ClassifiedLabelIsValid ==
  /\ pc = "classified" =>
       /\ cls.ok
       /\ cls.label \in Labels
       /\ lastOut = OutFinance => cls.label = "finance" /\ cls.source \in {"agent", "llm"}
       /\ lastOut = OutBadLabel => cls = DefaultCls
  /\ intent # "none" => intent \in Labels
  /\ \A i \in 1..Len(calls) : calls[i].site \in Labels \cup {"classify"}

\* the classifier answered with the label Finance and the result has label finance
CapitalLabelLowercased ==
  /\ pc = "classified"
  /\ lastOut = OutFinance
  /\ cls.label = "finance"

\* the calls made by a responder, in order
ResponderCalls == SelectSeq(calls, LAMBDA c : c.site # "classify")

\* C13: routeAndAnswer calls the responder of the classified label and no other; it
\* returns intent, agentName and answer built from what the responder returned, or,
\* when the responder fails, raises and returns nothing.
OneResponderAnswersOrRaises ==
  mode = "block" =>
    /\ \A i \in 1..Len(ResponderCalls) :
         /\ ResponderCalls[i].site = intent
         /\ ResponderCalls[i].api \in {"invokeAgentText", "ask"}
    /\ Cardinality({i \in 1..Len(ResponderCalls) :
                      ResponderCalls[i].api = "invokeAgentText"}) <= 1
    /\ Cardinality({i \in 1..Len(ResponderCalls) : ResponderCalls[i].api = "ask"}) <= 1
    /\ result.ok <=> pc = "returned"
    /\ pc = "returned" =>
         /\ result.intent = intent
         /\ result.agentName =
              (CASE intent = "code" -> "Code Agent"
                 [] intent = "finance" -> "Finance Agent"
                 [] OTHER -> "General Agent")
         /\ result.answer = normalize(lastOut)
         /\ ResponderCalls[Len(ResponderCalls)].status = "returned"
    /\ (pc = "thrown" /\ intent # "none") =>
         /\ result = NoResult
         /\ ResponderCalls[Len(ResponderCalls)].api = "ask"
         /\ \A i \in 1..Len(ResponderCalls) : ResponderCalls[i].status = "raised"

\* the agent and the model of the code responder both failed and routeAndAnswer raised
ResponderFailedTwice ==
  /\ mode = "block"
  /\ pc = "thrown"
  /\ intent = "code"
  /\ Len(ResponderCalls) = 2
  /\ result = NoResult

TerminalFrames == {i \in 1..Len(frames) : frames[i].kind \in Terminal}

\* C14: a response of GET /api/stream that the server ends itself holds exactly one
\* terminal frame, an error frame or a done frame, as its last frame.
OneTerminalFrameLast ==
  closed = "server" =>
    /\ Cardinality(TerminalFrames) = 1
    /\ frames[Len(frames)].kind \in Terminal

\* C15 as stated: on a response the client did not close, every event of
\* routeAndAnswerStream has its own frame of the same kind, in the order of the
\* events.
EveryEventHasItsFrame ==
  (mode = "stream" /\ closed # "client") =>
    /\ Len(frames) >= Len(events)
    /\ \A i \in 1..Len(events) : frames[i].kind = events[i].type

\* the frame GET /api/stream writes for an event
FrameOf(e) ==
  CASE e.type = "intent" -> IntentFrame(e.intent, e.agentName)
    [] e.type = "delta" ->
         DeltaFrame(SelectSeq(e.delta, LAMBDA c : c \notin {"[object Object]", "U+200B"}))
    [] e.type = "error" -> ErrorFrame("Error during streaming")
    [] OTHER -> DoneFrame

\* the events that get a frame: all but the delta events whose cleaned text is empty
FramedEvents ==
  SelectSeq(events, LAMBDA e : e.type = "delta" => FrameOf(e).delta # <<>>)

\* C15: on a response the client did not close, the frames are, in order, one frame
\* per intent, error and done event and one frame with the cleaned text per delta
\* event whose cleaned text is not empty; a delta event whose cleaned text is empty
\* gets no frame; the only other frame is the error frame of the catch block.
EventsMapToFrames ==
  (mode = "stream" /\ closed # "client") =>
    /\ served = Len(events)
    /\ Len(frames) = Len(FramedEvents) + (IF pc = "thrown" THEN 1 ELSE 0)
    /\ \A i \in 1..Len(FramedEvents) : frames[i] = FrameOf(FramedEvents[i])
    /\ pc = "thrown" => frames[Len(frames)] = ErrorFrame("Agent error")

\* a delta event with a zero-width space got no frame and the one after it got one
EmptyDeltaSkipped ==
  /\ closed = "server"
  /\ Len(events) = 4
  /\ events[2] = DeltaEv(intent, FragZeroWidth)
  /\ events[3] = DeltaEv(intent, FragCode)
  /\ Len(frames) = 3
  /\ frames[2] = DeltaFrame(FragCode)

\* the trimmed texts of the pieces of src, joined in the order they were received
RECURSIVE Joined(_, _, _)
Joined(pieces, src, i) ==
  IF i > Len(pieces) THEN <<>>
  ELSE (IF i \in src THEN Trim(pieces[i]) ELSE <<>>) \o Joined(pieces, src, i + 1)

\* the delta texts the router can make of the pieces of src
DeltasOf(pieces, src, joined, p) ==
  {pieces[i] : i \in src} \cup {joined} \cup
  (IF p.ok THEN {JsString(deltaTextOf(p.v))} ELSE {})

DeltaEvents(r) == SelectSeq(r.events, LAMBDA e : e.type = "delta")

\* request r is what its own inputs make it: its buffer is made of the pieces it
\* received, every delta of the pieces recorded for it, its signal is aborted only
\* when its own response has ended, its label is the one of its own classification
OnItsOwn(r) ==
  /\ r.jsonBuf = Joined(r.pulled, r.bufSrc, 1)
  /\ Len(DeltaEvents(r)) = Len(r.deltaSrc)
  /\ \A k \in 1..Len(r.deltaSrc) :
       DeltaEvents(r)[k].delta \in
         DeltasOf(r.pulled, r.deltaSrc[k], Joined(r.pulled, r.deltaSrc[k], 1),
                  JsonParse(Joined(r.pulled, r.deltaSrc[k], 1)))
  /\ r.aborted <=> r.closed # "none"
  /\ r.pc = "classified" => r.cls = OrDefault(classifyParsed(r.lastOut, "llm"))
  /\ \A i \in 1..Len(r.events) : r.events[i].intent = r.intent

\* C16: two streaming requests interleaved at their suspension points each go on as
\* they would alone: a step of one leaves the state of the suspended one as it is, a
\* resumed request finds its buffer, its signal and its classification as it left
\* them, and the buffer, the deltas, the signal and the label of each are made of
\* its own inputs only.
RequestsAreIndependent ==
  /\ [](OnItsOwn(Cur) /\ OnItsOwn(other))
  /\ [][other' = other \/ (other' = Cur /\ Cur' = other)]_vars

\* one request holds the head of an object in its buffer while the other, which got
\* pieces of its own, has finished with a delta
BufferKeptWhileOtherRan ==
  /\ other.mode # "none"
  /\ other.jsonBuf = FragDelHead
  /\ pc = "finished"
  /\ pulled # <<>>
  /\ Count("delta") > 0

\* the provider calls made at a call site, in order
SiteCalls(site) == SelectSeq(calls, LAMBDA c : c.site = site)

\* the settings a call site has read are sets: the first call of the site is the
\* agent call if both ids are set; otherwise the site makes no agent call and its
\* first call is the model call (a streaming responder without a model id throws
\* before it calls the model)
PathFollowsSettings(site, sets, cs) ==
  sets.agentVar # "none" =>
    IF sets.agentId /\ sets.aliasId
    THEN cs # <<>> /\ cs[1].api \in AgentApis
    ELSE /\ \A i \in 1..Len(cs) : cs[i].api \notin AgentApis
         /\ cs = <<>> => mode = "stream" /\ site # "classify" /\ env.modelId = "unset"

NoFragmentAfterAbort == lateYields = <<>>

\* the calls of classifyIntent are cs: at most one is a model call; it is the first
\* call when the agent is not configured, and otherwise it follows an agent call
\* that raised or returned a text without a valid label
ModelAskedOnlyInNeed(cs) ==
  /\ Cardinality({i \in 1..Len(cs) : cs[i].api = "ask"}) <= 1
  /\ Len(cs) <= 2
  /\ \A i \in 1..Len(cs) :
       cs[i].api = "ask" =>
         IF env.classify.agentId /\ env.classify.aliasId
         THEN /\ i = 2
              /\ cs[1].api = "invokeAgentText"
              /\ cs[1].status \in {"raised", "returned"}
              /\ (pc = "cls_model" /\ cs[1].status = "returned") =>
                    ~classifyParsed(lastOut, "agent").ok
         ELSE i = 1

\* the agent's answer out ended classifyIntent if and only if it holds a valid label,
\* and then the result is the agent's
AgentLabelEndsIt(cs, out) ==
  (pc = "classified" /\ cs # <<>> /\ cs[1].api = "invokeAgentText" /\ Len(cs) = 1) =>
    /\ cs[1].status = "returned"
    /\ classifyParsed(out, "agent").ok
    /\ cls = classifyParsed(out, "agent")
    /\ cls.source = "agent"

\* C19: classifyIntent calls the model at most once, and only when the agent is not
\* configured, raised, or returned a text without a valid label; when the agent
\* returns a valid label the result has source agent and the model is not called.
ModelCalledOnceWhenNeeded ==
  /\ ModelAskedOnlyInNeed(SiteCalls("classify"))
  /\ AgentLabelEndsIt(SiteCalls("classify"), lastOut)
  /\ (pc = "classified" /\ cls.source = "agent") => Len(SiteCalls("classify")) = 1

\* the agent answered without a valid label, and the model, asked once, gave one
ModelAskedAfterBadLabel ==
  /\ pc = "classified"
  /\ Len(SiteCalls("classify")) = 2
  /\ SiteCalls("classify")[1].status = "returned"
  /\ cls.source = "llm"

\* the text the rules give for a parsed object, the first rule that matches in the
\* order: type content_block_delta, choices, string delta, string text, the object
\* as JSON text
FirstRuleText(v) ==
  CASE Get(v, KeyType) = JStr(ContentBlockDelta) ->
         IF Truthy(Get(Get(v, KeyDelta), KeyText)) THEN Get(Get(v, KeyDelta), KeyText)
         ELSE JStr(<<>>)
    [] Get(v, KeyType) # JStr(ContentBlockDelta) /\ Truthy(Get(v, KeyChoices)) ->
         IF Get(Get(Index0(Get(v, KeyChoices)), KeyDelta), KeyContent).t
              \in {"null", "undefined"}
         THEN JStr(<<>>)
         ELSE Get(Get(Index0(Get(v, KeyChoices)), KeyDelta), KeyContent)
    [] Get(v, KeyType) # JStr(ContentBlockDelta) /\ ~Truthy(Get(v, KeyChoices))
         /\ Get(v, KeyDelta).t = "str" -> Get(v, KeyDelta)
    [] Get(v, KeyType) # JStr(ContentBlockDelta) /\ ~Truthy(Get(v, KeyChoices))
         /\ Get(v, KeyDelta).t # "str" /\ Get(v, KeyText).t = "str" -> Get(v, KeyText)
    [] OTHER -> JStr(JsonStringify(v))

\* what the router does with a buffer that parsed to p and the text chosen for it
ParsedBufferStep(p, chosen) ==
  p.ok =>
    /\ jsonBuf' = <<>>
    /\ events' = IF chosen.s # <<>> THEN Append(events, DeltaEv(intent, chosen.s))
                  ELSE events

BufferStep(p) == ParsedBufferStep(p, FirstRuleText(p.v))

\* the router received a piece of a label that is parsed
ParsedPieceStep ==
  /\ pc = "md_pull"
  /\ pc' = "md_pull"
  /\ intent # "code"
  /\ Len(pulled') = Len(pulled) + 1

\* C20: for a buffer that parsed, the delta text is the one of the first rule that
\* matches (type content_block_delta, choices, string delta, string text, else the
\* object as JSON text), also when that rule gives an empty text; the buffer is
\* cleared, and a delta is yielded only if the text is not empty.
FirstMatchingRuleWins ==
  [][ParsedPieceStep => BufferStep(JsonParse(jsonBuf \o Trim(pulled'[Len(pulled')])))]_vars

\* an object of type content_block_delta with an empty delta.text and a string text
\* was received and gave no delta
EarlierRuleGaveNothing ==
  /\ pc = "md_pull"
  /\ intent = "general"
  /\ pulled = <<ObjectOf(<<Member(KeyType, <<Q>> \o ContentBlockDelta \o <<Q>>),
                           Member(KeyDelta, <<"{">> \o Member(KeyText, <<Q, Q>>) \o <<"}">>),
                           Member(KeyText, <<Q, "x", Q>>)>>)>>
  /\ Count("delta") = 0
  /\ jsonBuf = <<>>

Pulling == {"ag_pull", "md_pull"}

\* the router, not aborted and on a label that is parsed, received one more piece
PieceStep ==
  /\ mode = "stream"
  /\ pc \in Pulling
  /\ ~aborted
  /\ intent # "code"
  /\ Len(pulled') = Len(pulled) + 1

\* the trimmed form of f starts with an opening brace or bracket
StartsJson(f) == Trim(f) # <<>> /\ Trim(f)[1] \in {"{", "["}

\* f went to the buffer: the buffer is its old text and the trimmed f, or empty after
\* a parse (or after the flush, when the stream ended in the same step)
Buffered(f) == jsonBuf' \in {jsonBuf \o Trim(f), <<>>}

\* f was yielded at once as one delta, its text as it is, and the buffer was left alone
\* (the stream going on)
Emitted(f) ==
  /\ Len(events') > Len(events)
  /\ events'[Len(events) + 1] = DeltaEv(intent, f)
  /\ pc' \in Pulling => jsonBuf' = jsonBuf /\ Len(events') = Len(events) + 1

\* C21 as stated: a fragment goes to the JSON buffer only if its trimmed form starts
\* with a brace or bracket, and any other fragment is yielded at once as one delta.
EveryOtherFragmentEmitted ==
  [][PieceStep =>
       IF StartsJson(pulled'[Len(pulled')]) THEN Buffered(pulled'[Len(pulled')])
       ELSE Emitted(pulled'[Len(pulled')])]_vars

\* C21: a fragment goes to the JSON buffer only if its trimmed form starts with a
\* brace or bracket; any other fragment that is not the empty string is yielded at
\* once as one delta with its text as it is, the buffer unchanged; an empty fragment
\* gives no event and leaves the buffer unchanged.
OtherFragmentsEmitted ==
  [][PieceStep =>
       IF StartsJson(pulled'[Len(pulled')]) THEN Buffered(pulled'[Len(pulled')])
       ELSE IF pulled'[Len(pulled')] # <<>> THEN Emitted(pulled'[Len(pulled')])
       ELSE jsonBuf' = jsonBuf /\ events' = events]_vars

\* a plain fragment was yielded while the buffer held the head of an object
PlainEmittedBesideBuffer ==
  /\ pc \in Pulling
  /\ intent # "code"
  /\ jsonBuf = FragDelHead
  /\ pulled = <<FragDelHead, FragPlain>>
  /\ Count("delta") = 1
  /\ events[Len(events)] = DeltaEv(intent, FragPlain)

\* what a candidate fragment does, buf being the buffer with the fragment and p its
\* parse: if buf does not parse nothing is yielded, the stream goes on and the buffer
\* is buf; if it parses the buffer is cleared and the only event is the delta of buf
CandidateStep(buf, p) ==
  IF ~p.ok
  THEN /\ events' = events
       /\ jsonBuf' = buf
       /\ pc' = pc
       /\ caught' = "none"
  ELSE /\ jsonBuf' = <<>>
       /\ pc' = pc
       /\ events' \in {events, Append(events, DeltaEv(intent, JsString(deltaTextOf(p.v))))}

CandidateOn(buf) == CandidateStep(buf, JsonParse(buf))

\* C22: a candidate fragment that leaves the buffer unparseable causes no event and
\* does not end the stream; the buffer keeps all it has accumulated, and the parse is
\* tried again, on the whole buffer, when the next candidate fragment extends it.
UnparseableBufferWaits ==
  [][(PieceStep /\ StartsJson(pulled'[Len(pulled')])) =>
       CandidateOn(jsonBuf \o Trim(pulled'[Len(pulled')]))]_vars

\* a fragment left the buffer unparseable without an event, and the next one made it
\* an object, which gave the one delta
SecondFragmentCompleted ==
  /\ pc \in Pulling
  /\ intent # "code"
  /\ pulled = <<FragPartial, FragPartialTail>>
  /\ jsonBuf = <<>>
  /\ Count("delta") = 1
  /\ events[Len(events)].delta = FragPartial \o FragPartialTail

\* the index where the braces opened before i are all closed, 0 if there is none
RECURSIVE BalancedEnd(_, _, _)
BalancedEnd(txt, i, depth) ==
  IF i > Len(txt) THEN 0
  ELSE IF txt[i] = "{" THEN BalancedEnd(txt, i + 1, depth + 1)
  ELSE IF txt[i] = "}" THEN (IF depth = 1 THEN i ELSE BalancedEnd(txt, i + 1, depth - 1))
  ELSE BalancedEnd(txt, i + 1, depth)

\* the first balanced {...} substring of txt
BalancedFrom(txt, a) ==
  FirstBlock(txt, a, IF a = 0 THEN 0 ELSE BalancedEnd(txt, a, 0))

FirstBalanced(txt) == BalancedFrom(txt, IndexFrom(txt, "{", 1))

ParsesTo(raw, p) == p.ok => safeParseJson(raw) = p.v

\* C23: safeParseJson gives the parsed object whenever the first balanced {...}
\* substring of the upstream text is a valid JSON object, whatever the prose around
\* it and the braces nested in it, and it parses the whole text before it gives null.
SafeParseFindsTheObject ==
  pc = "classified" =>
    /\ FirstBalanced(lastOut).ok => ParsesTo(lastOut, JsonParse(FirstBalanced(lastOut).s))
    /\ JsonParse(Trim(lastOut)).ok => safeParseJson(lastOut) # JNull

\* the confidence c of a classifier answer gives the confidence got: a number is
\* clamped to [0, 1] (in hundredths), a missing, null or empty one gives 0.5
ConfidenceFrom(c, got) ==
  /\ got \in 0..100
  /\ c.t = "num" => got = Max2(0, Min2(100, DecimalVal(c.s)))
  /\ (c.t \in {"null", "undefined"} \/ c = JStr(<<>>)) => got = 50

\* C24: the confidence classifyIntent returns is within [0, 1]: a number is clamped
\* to the nearest bound, and a missing or non-numeric confidence (null and the empty
\* string too) gives 0.5.
ConfidenceClampedOrHalf ==
  (pc = "classified" /\ cls.source # "fallback") =>
    ConfidenceFrom(Get(safeParseJson(lastOut), KeyConfidence), cls.confidence)

ModelApis == {"ask", "askStream"}

\* the calls cs of one call site hold at most one agent call and one model call
OncePerProvider(cs) ==
  /\ Cardinality({i \in 1..Len(cs) : cs[i].api \in AgentApis}) <= 1
  /\ Cardinality({i \in 1..Len(cs) : cs[i].api \in ModelApis}) <= 1

\* C25: within one request a call site attempts each provider at most once: at most
\* one agent call and one model call; a model call that failed is not tried again,
\* and it shows as an error event (streaming) or as a thrown failure (blocking).
EachProviderTriedOnce ==
  /\ OncePerProvider(SiteCalls("classify"))
  /\ OncePerProvider(SiteCalls(intent))
  /\ askStage # "invoke"
  /\ \A i \in 1..Len(calls) :
       (calls[i].api \in ModelApis /\ calls[i].status = "raised") =>
         IF mode = "stream" THEN Count("error") = 1 ELSE pc = "thrown"

\* C26: the signal made at the request boundary is passed to the classifier's
\* upstream call and to the streaming responder's upstream call, so that an abort
\* reaches every upstream call of the request that is in flight.
SignalReachesEveryCall ==
  mode = "stream" =>
    \A i \in 1..Len(calls) : calls[i].status = "pending" => calls[i].signal

DoneFrames == Cardinality({i \in 1..Len(frames) : frames[i].kind = "done"})

\* C27 as stated: every response of GET /api/stream whose router sequence completed
\* without throwing holds exactly one done frame.
AlwaysOneDoneFrame == (mode = "stream" /\ pc = "finished") => DoneFrames = 1

\* C27: a response of GET /api/stream whose router sequence completed without
\* throwing holds exactly one done frame, never two, if the client had not closed
\* it; on a response the client closed no done frame is written.
OneDoneFrameUnlessClosed ==
  (mode = "stream" /\ pc = "finished") =>
    /\ sentDone
    /\ DoneFrames = IF closed = "client" THEN 0 ELSE 1

\* a stream ended by itself after a delta frame, with its done frame
DoneFrameAfterDelta ==
  /\ mode = "stream"
  /\ pc = "finished"
  /\ closed = "server"
  /\ Len(frames) >= 3
  /\ frames[Len(frames) - 1].kind = "delta"
  /\ frames[Len(frames)] = DoneFrame

\* C28: in ChatBox every started send leads to sending being false again: on a done
\* frame, an error frame, a response that is not OK, the end of the stream without a
\* done frame, a network error or a cancel.
SendingIsReset == chat.sending ~> ~chat.sending

\* a send ended with the stream, without a done frame, and sending is false
SendEndedWithoutDone ==
  /\ ~chat.sending
  /\ \E k \in 1..Len(chat.sends) : chat.sends[k].how = "eof" /\ chat.sends[k].reads > 0

\* C29: the pieces one streaming responder yields come from one provider: after a
\* piece of the agent's stream no piece of the model's stream is yielded.
OneProviderPerInvocation ==
  \A i, j \in 1..Len(pulledBy) :
    (i < j /\ pulledBy[i] = "invokeAgentStream") => pulledBy[j] # "askStream"

\* f is by itself a JSON object whose delta text is not empty
CompleteObject(f) ==
  /\ StartsJson(f)
  /\ Trim(f)[1] = "{"
  /\ JsonParse(Trim(f)).ok
  /\ Truthy(deltaTextOf(JsonParse(Trim(f)).v))

\* C30: under a non-code label a fragment that is by itself a complete JSON object
\* with delta text gives a delta event with exactly that text in the step that
\* receives it, whatever earlier fragments left in the buffer.
CompleteObjectGivesItsDelta ==
  [][(PieceStep /\ CompleteObject(pulled'[Len(pulled')])) =>
       /\ Len(events') > Len(events)
       /\ events'[Len(events) + 1] =
            DeltaEv(intent, JsString(deltaTextOf(JsonParse(Trim(pulled'[Len(pulled')])).v)))]_vars

\* C31: once the signal is aborted the request starts no upstream call: a step taken
\* with the signal aborted adds no call, be it the responder's stream after a
\* classification that was under way or the model's stream after the agent's stream.
NoCallStartedAfterAbort == [][aborted => Len(calls') = Len(calls)]_vars

\* C32: the handler of GET /api/stream never calls res.write on a response that has
\* ended: not from the loop over the events, not for the final done frame or the
\* error frame, not from the keep-alive timer.
NoWriteAfterEnd == lateWrites = <<>>

\* a responder's agent was called
AgentTried(cs) == \E i \in 1..Len(cs) : cs[i].site # "classify" /\ cs[i].api \in AgentApis

\* C33: under one environment the blocking responder of a domain tries its agent if
\* and only if the streaming responder of that domain does.
SameProviderChoiceInBothModes ==
  (other.mode \notin {"none", mode} /\ intent # "none" /\ other.intent = intent) =>
    (AgentTried(calls) <=> AgentTried(other.calls))

\* C34: in ChatBox streamed text only replaces the assistant placeholder of the
\* request it belongs to: a step changes no user message, no system message and no
\* assistant message of another call of send.
OnlyOwnPlaceholderReplaced ==
  [][\A i \in 1..Len(chat.messages) :
       chat'.messages[i] # chat.messages[i] =>
         /\ chat.messages[i].role = "assistant"
         /\ chat'.messages[i].send = chat.messages[i].send]_vars

\* the calls of send whose fetch is neither over nor aborted
ActiveSends == {k \in 1..Len(chat.sends) : chat.sends[k].at # "over" /\ ~chat.sends[k].aborted}

\* C35: ChatBox has at most one stream in flight: at most one call of send is active
\* and streamRef holds its controller and no other; a submit while sending is true
\* starts nothing; and a call of send never writes its text on a message of a later
\* call.
OneStreamInFlight ==
  /\ [](/\ Cardinality(ActiveSends) <= 1
        /\ \A k \in ActiveSends : chat.streamRef = k
        /\ chat.streamRef # 0 => chat.streamRef \in ActiveSends)
  /\ [][/\ chat.sending => Len(chat'.sends) = Len(chat.sends)
        /\ \A i \in 1..Len(chat.messages) :
             chat'.messages[i] # chat.messages[i] =>
               chat'.messages[i].send >= chat.messages[i].send]_vars

\* the first stream was cancelled and the second one has written a delta in its own
\* placeholder
SecondStreamAfterCancel ==
  /\ Len(chat.sends) = 2
  /\ chat.sends[1].aborted
  /\ chat.sends[2].acc = 1
  /\ chat.streamRef = 2
  /\ chat.messages[Len(chat.messages)] = Message("assistant", 2, 1)
  /\ \E i \in 1..Len(chat.messages) : chat.messages[i] = Message("system", 0, 0)

\* the request presented, in its header or its token parameter, a token that
\* verifyToken accepts
PresentedAccepted ==
  \E v \in {auth.header, auth.query} : v.kind = "string" /\ verifyToken(TokenOf(v.chars))

\* C36: a request reaches its handler only if it presented a token that verifyToken
\* accepted; a request without such a token is answered 401, and nothing is
\* classified and no upstream is called for a request that was not admitted.
OnlyVerifiedRequestsServed ==
  /\ auth.admitted => PresentedAccepted
  /\ (~PresentedAccepted /\ (auth.admitted \/ auth.status # 0)) => auth.status = 401
  /\ ~auth.admitted => calls = <<>> /\ pc = "start"

\* the handler of GET /api/stream has returned
HandlerExited == mode = "stream" /\ pc \in {"finished", "thrown"}

\* C37: when the handler of GET /api/stream has returned, normally or through its
\* catch, and when the client has closed the connection, the keep-alive timer is
\* cleared, the signal is aborted and the response is ended; cleanup() run again
\* leaves the state as it is.
CleanupOnEveryExit ==
  /\ (HandlerExited \/ closed # "none") => (~keepAlive.on /\ aborted /\ closed # "none")
  /\ Cleanup(Cleanup(Cur, "server"), "server") = Cleanup(Cur, "server")
  /\ closed # "none" => Cleanup(Cur, "server") = Cur

\* the timer wrote a comment, the client closed the connection, then the router threw
\* and the handler left through its catch and finally
ExitedAfterCloseAndThrow ==
  /\ HandlerExited
  /\ pc = "thrown"
  /\ closed = "client"
  /\ keepAlive = [on |-> FALSE, ticks |-> 1]
  /\ aborted

====
